---- MODULE Spec2Model ----
(***************************************************************************)
(* A model of the fMRI tool-representation analysis pipeline:              *)
(*   analysis/preprocessing.py      DataProcessor                          *)
(*   analysis/statistical_analysis.py  StatisticalAnalyzer                 *)
(*   run_analysis.py                main                                   *)
(*                                                                         *)
(* Text is modelled as a sequence of one-character strings, so that the    *)
(* regular expressions and float() conversions of the code are computed    *)
(* character by character.  No string-valued field of the program is ever  *)
(* the empty string, so the empty sequence stands for Python's None in a   *)
(* string-valued field; an optional number is the empty set (None) or a    *)
(* singleton set.                                                          *)
(***************************************************************************)
EXTENDS Integers, Sequences, FiniteSets, TLC

VARIABLES
    \* parse_psychopy_logs
    log_file,        \* the file given: [name, readable]
    lpc,             \* "start", "loop", "returned" or "raised"
    trial_data,      \* the dict being built (and returned)
    scan_started,
    line_num,        \* number of lines consumed by the for loop
    cur_line         \* the line of the latest loop iteration, <<>> before the first

logVars == <<log_file, lpc, trial_data, scan_started, line_num, cur_line>>

VARIABLES
    \* parse_condition_files
    cond_file,       \* the file given: [name, readable, content]
    cpc,             \* "start", "returned" or "raised"
    condition_data   \* the dict returned

condVars == <<cond_file, cpc, condition_data>>

VARIABLES
    \* the files under data/raw/S01
    disk_logs,       \* run number -> the kind of the run's log file, or "absent"
    disk_conds,      \* the names of the files in S01/condition_files
    \* create_trial_dataframe
    dpc,             \* "start", "s01" (in the loop over the S01 runs), "done", "raised"
    run_idx,         \* the index in s01_runs of the run to process next
    all_trials,      \* the records collected so far
    trials_bound,    \* whether the local `trials` of _process_s01_complete_design is bound
    df               \* the DataFrame returned

dfVars == <<disk_logs, disk_conds, dpc, run_idx, all_trials, trials_bound, df>>

VARIABLES
    \* the directory data/raw/<pid> of a participant other than S01
    part_logs,       \* the *.log files, in the order glob lists them: [name, kind]
    part_conds,      \* the *.txt files of "Condition Files": [name, readable]
    log_idx,         \* the index in part_logs of the log to process next
    contributed      \* <<log name, condition file name, n>>: the pair gave n records

matchVars == <<part_logs, part_conds, log_idx, contributed>>

VARIABLES
    \* run_analysis.main
    verbose,         \* the --verbose flag
    mpc,             \* the call main makes next, or "returned", "completed", "failed"
    phase_log,       \* the phases begun and ended so far, in order
    raised_in,       \* the phase in which a call raised, 0 if none did
    n_trials,        \* len(df) of the table of phase 1
    total_images     \* brain_results['total_images']

mainVars == <<verbose, mpc, phase_log, raised_in, n_trials, total_images>>

VARIABLES
    \* export_processed_data
    dirs,            \* the directories of the file system, each a sequence of names
    files,           \* the regular files of the file system
    output_dir,      \* the output_dir argument: a str, or NoArg
    epc,             \* "start", "csv", "excel", "report", "returned", "raised"
    exported_files   \* the dict the call builds and returns

exportVars == <<dirs, files, output_dir, epc, exported_files>>

VARIABLES
    \* StatisticalAnalyzer
    analyzer_df,     \* self.df: [columns, rows]
    stats_call,      \* the last method called, with its argument
    stats_result     \* the dict it returned

statsVars == <<analyzer_df, stats_call, stats_result>>

VARIABLES
    \* ResultsSummarizer
    summarizer_df,     \* self.df: [columns, rows]
    analysis_results,  \* self.analysis_results: [entries, keys, dicts]
    pub_dirs,          \* the directories of the file system
    pub_files,         \* the regular files of the file system
    pub_arg,           \* the output_dir argument of export_for_publication
    spc,               \* "ready", a step of export_for_publication, "returned", "raised"
    summ_call,         \* the method called
    summ_result        \* what it returned: a dict or a table

summVars == <<summarizer_df, analysis_results, pub_dirs, pub_files, pub_arg, spc,
              summ_call, summ_result>>

VARIABLES
    \* DataVisualizer
    viz_df,          \* self.df: [columns, rows]
    viz_dirs,        \* the directories of the file system
    viz_files,       \* the regular files of the file system
    viz_arg,         \* the output_dir argument of export_all_plots
    vpc,             \* "start", "plot", "save", "returned", "raised"
    exported_plots   \* the dict export_all_plots returns

vizVars == <<viz_df, viz_dirs, viz_files, viz_arg, vpc, exported_plots>>

VARIABLES
    \* BrainImageProcessor.process_all_brain_data
    raw_images,          \* condition -> what its mapped file under raw/ is
    brain_dirs,          \* the directories of the file system
    brain_files,         \* the regular files under processed/
    bpc,                 \* "start", "summary", "export", "tables", "compile", "returned", "raised"
    brain_data,          \* the dict load_brain_images returns
    brain_summary,       \* the lines of the summary
    brain_exported,      \* the dict export_brain_images returns
    statistical_tables,  \* the dict generate_statistical_tables returns
    brain_results        \* the dict process_all_brain_data returns

brainVars == <<raw_images, brain_dirs, brain_files, bpc, brain_data, brain_summary,
               brain_exported, statistical_tables, brain_results>>

VARIABLES
    \* one log parsed and combined with one condition file
    comb_log,        \* the log file: [name, readable, lines]
    comb_pc,         \* "start", "parsed", "combined"
    comb_log_data,   \* the dict parse_psychopy_logs returns
    comb_records     \* the records _combine_log_condition_data returns

combVars == <<comb_log, comb_pc, comb_log_data, comb_records>>
VARIABLES
    \* _extract_participant_id applied to a file name, then to its own result
    id_filename,     \* the file name
    id_pc,           \* "start", "extracted", "again"
    id_result,       \* the participant id of the file name
    id_again         \* the participant id of id_result

idVars == <<id_filename, id_pc, id_result, id_again>>
VARIABLES
    \* an experiment script (passive_viewing.py, active_grasp.py)
    exp_script,      \* which of the two scripts runs
    exp_where,       \* the part of the script that runs: "dialog", "launch", ...
    exp_phase,       \* of a routine: "prepare", "run", "end"; "loop" at a loop head
    exp_status,      \* the status of the component of the routine, "none" without one
    exp_rep,         \* the repetition of trials_5 that runs, from 1
    exp_idx,         \* the routine of the repetition that runs, an index in Body
    exp_items,       \* the trials left in the inner loop, the current one included
    launch_scans,    \* the calls of launchScan made
    pulsetime,       \* 'pulsetime' has been recorded
    shown,           \* the stimuli drawn so far (setAutoDraw(True))
    routines_ended   \* the routines that have ended at least once

expVars == <<exp_script, exp_where, exp_phase, exp_status, exp_rep, exp_idx, exp_items,
             launch_scans, pulsetime, shown, routines_ended>>
vars == <<logVars, condVars, dfVars, matchVars, mainVars, exportVars, statsVars, summVars, vizVars, brainVars, combVars, idVars, expVars>>

\* what the actions of each part leave alone
exceptLog == <<condVars, dfVars, matchVars, mainVars, exportVars, statsVars, summVars, vizVars, brainVars, combVars, idVars, expVars>>
exceptCond == <<logVars, dfVars, matchVars, mainVars, exportVars, statsVars, summVars, vizVars, brainVars, combVars, idVars, expVars>>
exceptS01 == <<logVars, condVars, matchVars, mainVars, exportVars, statsVars, summVars, vizVars, brainVars, combVars, idVars, expVars>>
exceptMatch == <<logVars, condVars, disk_logs, disk_conds, run_idx, trials_bound, mainVars, exportVars, statsVars, summVars, vizVars, brainVars, combVars, idVars, expVars>>
exceptMain == <<logVars, condVars, dfVars, matchVars, exportVars, statsVars, summVars, vizVars, brainVars, combVars, idVars, expVars>>
exceptExport == <<logVars, condVars, dfVars, matchVars, mainVars, statsVars, summVars, vizVars, brainVars, combVars, idVars, expVars>>
exceptStats == <<logVars, condVars, dfVars, matchVars, mainVars, exportVars, summVars, vizVars, brainVars, combVars, idVars, expVars>>
exceptSumm == <<logVars, condVars, dfVars, matchVars, mainVars, exportVars, statsVars, vizVars, brainVars, combVars, idVars, expVars>>
exceptViz == <<logVars, condVars, dfVars, matchVars, mainVars, exportVars, statsVars, summVars, brainVars, combVars, idVars, expVars>>
exceptBrain == <<logVars, condVars, dfVars, matchVars, mainVars, exportVars, statsVars, summVars, vizVars, combVars, idVars, expVars>>
exceptComb == <<logVars, condVars, dfVars, matchVars, mainVars, exportVars, statsVars, summVars, vizVars, brainVars, idVars, expVars>>
exceptId == <<logVars, condVars, dfVars, matchVars, mainVars, exportVars, statsVars, summVars, vizVars, brainVars, combVars, expVars>>
exceptExp == <<logVars, condVars, dfVars, matchVars, mainVars, exportVars, statsVars, summVars, vizVars, brainVars, combVars, idVars>>

\* ------------------------------------------------------------------------
\* Bounds of the model
\* ------------------------------------------------------------------------
MaxLines == 3
MaxTokLen == 2
MaxTokens == 2

\* ------------------------------------------------------------------------
\* Text helpers
\* ------------------------------------------------------------------------
None == <<>>
NoNum == {}
Num(n) == {n}
Val(o) == CHOOSE n \in o : TRUE

DigitChars == {"0", "1", "2", "3", "4", "5", "6", "7", "8", "9"}
UpperChars == {"A", "B", "C", "D", "E", "F", "G", "H", "I", "J", "K", "L",
               "M", "N", "O", "P", "Q", "R", "S", "T", "U", "V", "W", "X", "Y", "Z"}
LowerChars == {"a", "b", "c", "d", "e", "f", "g", "h", "i", "j", "k", "l", "m",
               "n", "o", "p", "q", "r", "s", "t", "u", "v", "w", "x", "y", "z"}
WordChars == DigitChars \cup UpperChars \cup LowerChars \cup {"_"}

DigitVal(c) ==
    CASE c = "0" -> 0 [] c = "1" -> 1 [] c = "2" -> 2 [] c = "3" -> 3
      [] c = "4" -> 4 [] c = "5" -> 5 [] c = "6" -> 6 [] c = "7" -> 7
      [] c = "8" -> 8 [] c = "9" -> 9

\* str.lower() on one character
LowerChar(c) ==
    CASE c = "A" -> "a" [] c = "B" -> "b" [] c = "C" -> "c" [] c = "D" -> "d"
      [] c = "E" -> "e" [] c = "F" -> "f" [] c = "G" -> "g" [] c = "H" -> "h"
      [] c = "I" -> "i" [] c = "J" -> "j" [] c = "K" -> "k" [] c = "L" -> "l"
      [] c = "M" -> "m" [] c = "N" -> "n" [] c = "O" -> "o" [] c = "P" -> "p"
      [] c = "Q" -> "q" [] c = "R" -> "r" [] c = "S" -> "s" [] c = "T" -> "t"
      [] c = "U" -> "u" [] c = "V" -> "v" [] c = "W" -> "w" [] c = "X" -> "x"
      [] c = "Y" -> "y" [] c = "Z" -> "z"
      [] OTHER -> c

Lower(s) == [i \in 1..Len(s) |-> LowerChar(s[i])]

\* `sub in s`
Contains(s, sub) ==
    \E i \in 1..(Len(s) - Len(sub) + 1) : SubSeq(s, i, i + Len(sub) - 1) = sub

StartsWith(s, sub) == Len(s) >= Len(sub) /\ SubSeq(s, 1, Len(sub)) = sub

\* the end (inclusive) of the longest run of characters of `cls` that starts at i;
\* i - 1 when s[i] is not in cls
RunEnd(s, i, cls) ==
    LET ends == {j \in (i - 1)..Len(s) : \A k \in i..j : s[k] \in cls}
    IN CHOOSE j \in ends : \A k \in ends : k <= j

AllDigits(s) == \A i \in 1..Len(s) : s[i] \in DigitChars

RECURSIVE DecimalValue(_)
DecimalValue(s) ==
    IF s = <<>> THEN 0
    ELSE 10 * DecimalValue(SubSeq(s, 1, Len(s) - 1)) + DigitVal(s[Len(s)])

\* float(s): over the characters of the model (digits, letters, ':', '*', '_')
\* the conversion succeeds exactly on a non-empty string of digits; ok = FALSE
\* stands for the ValueError.
Float(s) ==
    IF s # <<>> /\ AllDigits(s) THEN [ok |-> TRUE, val |-> DecimalValue(s)]
    ELSE [ok |-> FALSE, val |-> 0]

\* (mutant) the number kept as written, without padding
Zfill2_Unpadded(s) == s

\* str.zfill(2)
Zfill2(s) == IF Len(s) = 0 THEN <<"0", "0">> ELSE IF Len(s) = 1 THEN <<"0">> \o s ELSE s

\* str.split(':')[0]
BeforeColon(s) ==
    LET cut == {i \in 1..Len(s) : s[i] = ":"}
    IN IF cut = {} THEN s
       ELSE SubSeq(s, 1, (CHOOSE i \in cut : \A j \in cut : i <= j) - 1)

Min(S) == CHOOSE x \in S : \A y \in S : x <= y
Max(S) == CHOOSE x \in S : \A y \in S : x >= y
Range(f) == {f[i] : i \in DOMAIN f}

\* ------------------------------------------------------------------------
\* File-name parsing (DataProcessor helper methods)
\* ------------------------------------------------------------------------
\* re.search(r'S(\d+)', filename): group 1 of the leftmost match, or None
SearchSDigits(f) ==
    LET hits == {i \in 1..(Len(f) - 1) : f[i] = "S" /\ f[i + 1] \in DigitChars}
    IN IF hits = {} THEN None
       ELSE LET i == Min(hits) IN SubSeq(f, i + 1, RunEnd(f, i + 1, DigitChars))

\* re.search(r'^(\d+)_', filename): group 1, or None
SearchLeadingDigits(f) ==
    LET e == RunEnd(f, 1, DigitChars)
    IN IF e >= 1 /\ e < Len(f) /\ f[e + 1] = "_" THEN SubSeq(f, 1, e) ELSE None

\* re.search(r'(\w+)_(\d+)_', filename): group 2 of the leftmost match, the
\* greedy (\w+) taking the longest prefix that still lets the rest match
SearchNameNumber(f) ==
    LET \* matches as <<start, position of the first '_', end of the digits>>
        ms == {m \in (1..Len(f)) \X (1..Len(f)) \X (1..Len(f)) :
                 /\ m[1] < m[2] /\ m[2] < m[3] /\ m[3] < Len(f)
                 /\ \A k \in m[1]..(m[2] - 1) : f[k] \in WordChars
                 /\ f[m[2]] = "_"
                 /\ \A k \in (m[2] + 1)..m[3] : f[k] \in DigitChars
                 /\ f[m[3] + 1] = "_"}
    IN IF ms = {} THEN None
       ELSE LET s == Min({m[1] : m \in ms})
                u == Max({m[2] : m \in {x \in ms : x[1] = s}})
                e == Max({m[3] : m \in {x \in ms : x[1] = s /\ x[2] = u}})
            IN SubSeq(f, u + 1, e)

s_Unknown == <<"U", "n", "k", "n", "o", "w", "n">>
s_unknown == <<"u", "n", "k", "n", "o", "w", "n">>

extract_participant_id(filename) ==
    IF SearchSDigits(filename) # None THEN <<"S">> \o Zfill2(SearchSDigits(filename))
    ELSE IF SearchLeadingDigits(filename) # None
         THEN <<"S">> \o Zfill2(SearchLeadingDigits(filename))
    ELSE IF SearchNameNumber(filename) # None
         THEN <<"S">> \o Zfill2(SearchNameNumber(filename))
    ELSE s_Unknown

extract_condition(filename) ==
    LET fl == Lower(filename)
    IN IF Contains(fl, <<"p","a","s","s","i","v","e">>) \/ Contains(fl, <<"p","v">>)
           THEN "passive_viewing"
       ELSE IF Contains(fl, <<"a","c","t","i","v","e">>) \/ Contains(fl, <<"g","r","a","s","p">>)
           THEN "active_grasp"
       ELSE IF Contains(fl, <<"c","l","e","n","c","h">>)
           THEN "clench"
       ELSE IF Contains(fl, <<"i","m","a","g","i","n","e","d">>) \/ Contains(fl, <<"i","g">>)
           THEN "imagined_grasp"
       ELSE "unknown"

s_txt == <<".", "t", "x", "t">>

\* re.match(r'S\d+_(\w+)_(\w+)\.txt', filename): <<group 1, group 2>>, or
\* ('unknown', 'unknown').  Both groups are greedy; '_' is a word character, so
\* group 1 runs to the last '_' that leaves a non-empty group 2 before '.txt'.
parse_condition_filename(filename) ==
    LET d == RunEnd(filename, 2, DigitChars)
        \* matches as <<position of the '_' between the groups, end of group 2>>
        ms == {m \in (1..Len(filename)) \X (1..Len(filename)) :
                 /\ m[1] > d + 2 /\ m[1] < m[2]
                 /\ \A k \in (d + 2)..m[2] : filename[k] \in WordChars
                 /\ filename[m[1]] = "_"
                 /\ m[2] + 4 <= Len(filename)
                 /\ SubSeq(filename, m[2] + 1, m[2] + 4) = s_txt}
    IN IF Len(filename) >= 1 /\ filename[1] = "S" /\ d >= 2
          /\ d < Len(filename) /\ filename[d + 1] = "_" /\ ms # {}
       THEN LET u == Max({m[1] : m \in ms})
                e == Max({m[2] : m \in {x \in ms : x[1] = u}})
            IN <<SubSeq(filename, d + 2, u - 1), SubSeq(filename, u + 1, e)>>
       ELSE <<s_unknown, s_unknown>>


\* ------------------------------------------------------------------------
\* PsychoPy log files
\* ------------------------------------------------------------------------
NoCondition == "None"

s_image == <<"i", "m", "a", "g", "e">>
s_hammer == <<"h", "a", "m", "m", "e", "r">>
s_tool == <<"t", "o", "o", "l">>
s_5 == <<"5">>

\* The substrings parse_psychopy_logs looks for in a line's content.
Marks == {"start of scan", "window1: mouseVisible = True", "New trial",
          "autoDraw = True", "Keypress:"}

\* A line's content is modelled by what the parser's substring tests and regular
\* expressions see of it: the marks it contains, group 1 of
\* r'(\w+): autoDraw = True' (stim) and of r'Keypress: (\w+)' (key), None when the
\* expression does not match, and the groups of the four trial expressions.
Content(has, stim, key, rep, index, image, type) ==
    [has |-> has, stim |-> stim, key |-> key, rep |-> rep, index |-> index,
     image |-> image, type |-> type]

Contents ==
    { Content({}, None, None, NoNum, NoNum, None, None),
      Content({"start of scan"}, None, None, NoNum, NoNum, None, None),
      Content({"window1: mouseVisible = True"}, None, None, NoNum, NoNum, None, None),
      Content({"New trial"}, None, None, Num(0), Num(1), s_hammer, s_tool),
      Content({"New trial"}, None, None, NoNum, NoNum, None, None),
      Content({"autoDraw = True"}, s_image, None, NoNum, NoNum, None, None),
      Content({"autoDraw = True"}, None, None, NoNum, NoNum, None, None),
      Content({"Keypress:"}, None, s_5, NoNum, NoNum, None, None),
      Content({"Keypress:"}, None, None, NoNum, NoNum, None, None),
      Content({"start of scan", "New trial"}, None, None, Num(0), Num(1), s_hammer, s_tool),
      Content({"New trial", "autoDraw = True"}, s_image, None, NoNum, NoNum, None, None) }

Timestamps == {<<"1">>, <<"2">>, <<"x">>}

\* A stripped, non-empty line: `short` when it has fewer than two tab-separated
\* parts, else its first part (the timestamp) and its content.
ShortLine == [short |-> TRUE, timestamp |-> <<"x">>,
              content |-> Content({}, None, None, NoNum, NoNum, None, None)]
LogLines ==
    {ShortLine} \cup [short : {FALSE}, timestamp : Timestamps, content : Contents]

LogNames ==
    { <<"S","0","2","_","p","a","s","s","i","v","e",".","l","o","g">>,
      <<"7","_","c","l","e","n","c","h",".","l","o","g">> }

\* dict helpers
Put(d, k, v) == [x \in DOMAIN d \cup {k} |-> IF x = k THEN v ELSE d[x]]
Has(d, k) == k \in DOMAIN d
ListOf(d, k) == IF Has(d, k) THEN d[k] ELSE <<>>

\* the dict of lines 63-71
NewTrialData(path) ==
    [file_path |-> path, participant_id |-> None, condition |-> NoCondition,
     trials |-> <<>>, timing_info |-> <<>>, scan_start |-> NoNum, scan_end |-> NoNum]

parse_trial_line(content, ts) ==
    [trial_timestamp |-> ts, trial_index |-> content.index, trial_rep |-> content.rep,
     image_file |-> content.image, stimulus_type |-> content.type]

\* The body of the for loop is five independent `if`s; r = [td, started, raised]
\* is threaded through them, and a ValueError of float(timestamp) leaves the
\* rest of the body (and of the loop) unexecuted.
StageScanStart(r, line) ==
    IF r.raised \/ "start of scan" \notin line.content.has THEN r
    ELSE IF ~Float(line.timestamp).ok THEN [r EXCEPT !.raised = TRUE]
    ELSE [r EXCEPT !.td.scan_start = Num(Float(line.timestamp).val), !.started = TRUE]

StageScanEnd(r, line) ==
    IF r.raised \/ ~("window1: mouseVisible = True" \in line.content.has /\ r.started) THEN r
    ELSE IF ~Float(line.timestamp).ok THEN [r EXCEPT !.raised = TRUE]
    ELSE [r EXCEPT !.td.scan_end = Num(Float(line.timestamp).val)]

\* (mutant) the trial lines parsed whether or not the scan has started
StageTrial_Ungated(r, line) ==
    IF r.raised \/ "New trial" \notin line.content.has THEN r
    ELSE IF ~Float(line.timestamp).ok THEN [r EXCEPT !.raised = TRUE]
    ELSE [r EXCEPT !.td.trials =
              Append(@, parse_trial_line(line.content, Float(line.timestamp).val))]

StageTrial(r, line) ==
    IF r.raised \/ ~(r.started /\ "New trial" \in line.content.has) THEN r
    ELSE IF ~Float(line.timestamp).ok THEN [r EXCEPT !.raised = TRUE]
    ELSE [r EXCEPT !.td.trials =
              Append(@, parse_trial_line(line.content, Float(line.timestamp).val))]

\* _parse_stimulus_presentation: the list is created before the timestamp is
\* converted, so a failing conversion leaves an empty 'stimulus_timings' behind
parse_stimulus_presentation(r, line) ==
    IF line.content.stim = None THEN r
    ELSE LET td1 == IF Has(r.td, "stimulus_timings") THEN r.td
                    ELSE Put(r.td, "stimulus_timings", <<>>)
         IN IF ~Float(line.timestamp).ok THEN [r EXCEPT !.td = td1, !.raised = TRUE]
            ELSE [r EXCEPT !.td = Put(td1, "stimulus_timings",
                     Append(td1["stimulus_timings"],
                            [stimulus |-> line.content.stim,
                             onset |-> Float(line.timestamp).val]))]

StageStimulus(r, line) ==
    IF r.raised \/ ~(r.started /\ "autoDraw = True" \in line.content.has) THEN r
    ELSE parse_stimulus_presentation(r, line)

parse_keypress(r, line) ==
    IF line.content.key = None THEN r
    ELSE LET td1 == IF Has(r.td, "keypresses") THEN r.td
                    ELSE Put(r.td, "keypresses", <<>>)
         IN IF ~Float(line.timestamp).ok THEN [r EXCEPT !.td = td1, !.raised = TRUE]
            ELSE [r EXCEPT !.td = Put(td1, "keypresses",
                     Append(td1["keypresses"],
                            [key |-> line.content.key,
                             timestamp |-> Float(line.timestamp).val]))]

StageKeypress(r, line) ==
    IF r.raised \/ ~(r.started /\ "Keypress:" \in line.content.has) THEN r
    ELSE parse_keypress(r, line)

\* one iteration of the loop of lines 86-123
ParseLogLine(r, line) ==
    IF line.short THEN r
    ELSE StageKeypress(StageStimulus(StageTrial(StageScanEnd(
             StageScanStart(r, line), line), line), line), line)

\* (mutant) an except clause that lets the exception out again
LogExcept_Reraise(td) == [pc |-> "raised", td |-> td]

\* the except clause of lines 128-130: log the error, return the dict
LogExcept(td) == [pc |-> "returned", td |-> td]

\* lines 73-84: open the file, read it, take the metadata from the file name
OpenLog ==
    /\ lpc = "start"
    /\ IF log_file.readable
       THEN /\ trial_data' = [trial_data EXCEPT
                                !.participant_id = extract_participant_id(log_file.name),
                                !.condition = extract_condition(log_file.name)]
            /\ lpc' = "loop"
       ELSE /\ trial_data' = LogExcept(trial_data).td
            /\ lpc' = LogExcept(trial_data).pc
    /\ scan_started' = FALSE
    /\ line_num' = 0
    /\ UNCHANGED <<log_file, cur_line>>
    /\ UNCHANGED exceptLog

\* One iteration of the for loop.  The lines of the file are not stored: each
\* iteration draws the next line, which gives the same runs as drawing the
\* whole file (of at most MaxLines lines) first.
NextLogLine ==
    /\ lpc = "loop"
    /\ line_num < MaxLines
    /\ \E line \in LogLines :
         LET r == ParseLogLine([td |-> trial_data, started |-> scan_started,
                                raised |-> FALSE], line)
         IN /\ cur_line' = line
            /\ scan_started' = r.started
            /\ IF r.raised
               THEN /\ trial_data' = LogExcept(r.td).td
                    /\ lpc' = LogExcept(r.td).pc
               ELSE /\ trial_data' = r.td
                    /\ lpc' = "loop"
    /\ line_num' = line_num + 1
    /\ UNCHANGED log_file
    /\ UNCHANGED exceptLog

\* lines 125-126: the loop is over, the dict is returned
EndOfLog ==
    /\ lpc = "loop"
    /\ lpc' = "returned"
    /\ UNCHANGED <<log_file, trial_data, scan_started, line_num, cur_line>>
    /\ UNCHANGED exceptLog

LogInit ==
    /\ log_file \in [name : LogNames, readable : BOOLEAN]
    /\ lpc = "start"
    /\ trial_data = NewTrialData(log_file.name)
    /\ scan_started = FALSE
    /\ line_num = 0
    /\ cur_line = <<>>

\* no parse_psychopy_logs call in progress
LogIdle ==
    /\ log_file = [name |-> None, readable |-> FALSE]
    /\ lpc = "idle"
    /\ trial_data = NewTrialData(None)
    /\ scan_started = FALSE
    /\ line_num = 0
    /\ cur_line = <<>>

LogNext == OpenLog \/ NextLogLine \/ EndOfLog


\* ------------------------------------------------------------------------
\* AFNI condition timing files
\* ------------------------------------------------------------------------
\* The characters of a timing file in the model: a digit, the ':' of a ':16'
\* suffix, and '*' (AFNI's mark of a run without events, and here also the
\* character that makes a token no number).
TokChars == {"1", ":", "*"}

RECURSIVE StringsUpTo(_, _)
StringsUpTo(chars, n) ==
    IF n = 0 THEN {<<>>}
    ELSE LET shorter == StringsUpTo(chars, n - 1)
         IN shorter \cup {Append(t, c) : t \in shorter, c \in chars}

\* content.split(): the whitespace-separated tokens of the stripped content
Tokens == StringsUpTo(TokChars, MaxTokLen) \ {<<>>}

RECURSIVE ListsUpTo(_, _)
ListsUpTo(elems, n) ==
    IF n = 0 THEN {<<>>}
    ELSE LET shorter == ListsUpTo(elems, n - 1)
         IN shorter \cup {Append(l, e) : l \in shorter, e \in elems}

FileContents == ListsUpTo(Tokens, MaxTokens)

CondNames ==
    { <<"S","0","2","_","P","V","_","t","o","o","l",".","t","x","t">>,
      <<"S","0","1","_","c","l","e","n","c","h",".","t","x","t">> }

\* the dict of lines 144-151
NewConditionData(path) ==
    [file_path |-> path, participant_id |-> None, condition_type |-> None,
     stimulus_type |-> None, timing_points |-> <<>>, duration |-> NoNum]

\* content.startswith('*'), the content being stripped
StartsWithStar(content) == content # <<>> /\ content[1][1] = "*"

\* (mutant) the token converted whole, its ':16' suffix left on
CleanPoint_NoSplit(point) == point

\* line 169: clean_point = point.split(':')[0]
CleanPoint(point) == BeforeColon(point)

\* lines 165-172: the loop over the tokens, a ValueError skipping the token
RECURSIVE TimingPoints(_)
TimingPoints(tokens) ==
    IF tokens = <<>> THEN <<>>
    ELSE LET f == Float(CleanPoint(Head(tokens)))
         IN (IF f.ok THEN <<f.val>> ELSE <<>>) \o TimingPoints(Tail(tokens))

\* (mutant) the last timing point minus the first, in file order
Duration_LastMinusFirst(timing_points) ==
    IF timing_points # <<>>
    THEN Num(timing_points[Len(timing_points)] - timing_points[1])
    ELSE NoNum

\* lines 176-178
Duration(timing_points) ==
    IF timing_points # <<>>
    THEN Num(Max(Range(timing_points)) - Min(Range(timing_points)))
    ELSE NoNum

\* the except clause of lines 183-185
CondExcept(cd) == [pc |-> "returned", cd |-> cd]

\* parse_condition_files as a function of the file: [pc, cd]
parse_condition_files(file) ==
    LET groups == parse_condition_filename(file.name)
        cd1 == [NewConditionData(file.name) EXCEPT
                  !.participant_id = extract_participant_id(file.name),
                  !.condition_type = groups[1],
                  !.stimulus_type = groups[2]]
    IN IF ~file.readable THEN CondExcept(cd1)
       ELSE IF file.content # <<>> /\ ~StartsWithStar(file.content)
       THEN [pc |-> "returned",
             cd |-> [cd1 EXCEPT !.timing_points = TimingPoints(file.content),
                                !.duration = Duration(TimingPoints(file.content))]]
       ELSE [pc |-> "returned", cd |-> cd1]

ParseConditionFile ==
    /\ cpc = "start"
    /\ cpc' = parse_condition_files(cond_file).pc
    /\ condition_data' = parse_condition_files(cond_file).cd
    /\ UNCHANGED cond_file
    /\ UNCHANGED exceptCond

CondFiles ==
    [name : CondNames, readable : {TRUE}, content : FileContents]
      \cup [name : CondNames, readable : {FALSE}, content : {<<>>}]

CondInit ==
    /\ cond_file \in CondFiles
    /\ cpc = "start"
    /\ condition_data = NewConditionData(cond_file.name)

CondIdle ==
    /\ cond_file = [name |-> None, readable |-> FALSE, content |-> <<>>]
    /\ cpc = "idle"
    /\ condition_data = NewConditionData(None)

CondNext == ParseConditionFile

\* ------------------------------------------------------------------------
\* create_trial_dataframe: the trial records and the DataFrame
\* ------------------------------------------------------------------------
\* parse_psychopy_logs as a function of the file [readable, name, lines]: the
\* dict it returns
RECURSIVE ParseLogLines(_, _)
ParseLogLines(r, lines) ==
    IF lines = <<>> \/ r.raised THEN r
    ELSE ParseLogLines(ParseLogLine(r, Head(lines)), Tail(lines))

parse_psychopy_logs(file) ==
    IF ~file.readable THEN LogExcept(NewTrialData(file.name)).td
    ELSE LET td0 == [NewTrialData(file.name) EXCEPT
                       !.participant_id = extract_participant_id(file.name),
                       !.condition = extract_condition(file.name)]
             r == ParseLogLines([td |-> td0, started |-> FALSE, raised |-> FALSE],
                                file.lines)
         IN IF r.raised THEN LogExcept(r.td).td ELSE r.td

\* lines 589-593: the i-th stimulus timing of the log goes to the i-th trial
WithStimulusTiming(rec, log_data, i) ==
    IF Has(log_data, "stimulus_timings") /\ i <= Len(log_data["stimulus_timings"])
    THEN Put(Put(rec, "stimulus_onset", Num(log_data["stimulus_timings"][i].onset)),
             "stimulus_name", log_data["stimulus_timings"][i].stimulus)
    ELSE rec

\* (mutant) the trials numbered from 0, as enumerate gives them
combine_log_condition_data_ZeroBased(log_data, cond_data) ==
    [i \in 1..Len(log_data.trials) |->
       WithStimulusTiming(
         [participant_id |-> log_data.participant_id,
          condition |-> log_data.condition,
          stimulus_type |-> cond_data.stimulus_type,
          trial_number |-> i - 1,
          trial_timestamp |-> log_data.trials[i].trial_timestamp,
          image_file |-> log_data.trials[i].image_file,
          scan_start |-> log_data.scan_start,
          scan_end |-> log_data.scan_end,
          timing_points |-> cond_data.timing_points,
          condition_duration |-> cond_data.duration],
         log_data, i)]

\* _combine_log_condition_data: one record per trial of the log
combine_log_condition_data(log_data, cond_data) ==
    [i \in 1..Len(log_data.trials) |->
       WithStimulusTiming(
         [participant_id |-> log_data.participant_id,
          condition |-> log_data.condition,
          stimulus_type |-> cond_data.stimulus_type,
          trial_number |-> i,
          trial_timestamp |-> log_data.trials[i].trial_timestamp,
          image_file |-> log_data.trials[i].image_file,
          scan_start |-> log_data.scan_start,
          scan_end |-> log_data.scan_end,
          timing_points |-> cond_data.timing_points,
          condition_duration |-> cond_data.duration],
         log_data, i)]

\* pandas: the value of a cell whose record has no such key (NaN)
NullOf(column) == IF column = "stimulus_name" THEN None ELSE NoNum
\* pd.isna of a numeric cell
IsNaN(v) == v = NoNum

RECURSIVE UnionOfKeys(_)
UnionOfKeys(records) ==
    IF records = <<>> THEN {}
    ELSE DOMAIN Head(records) \cup UnionOfKeys(Tail(records))

\* pd.DataFrame(list of dicts): the columns are the keys of all the records
DataFrame(records) ==
    LET columns == UnionOfKeys(records)
    IN [columns |-> columns,
        rows |-> [i \in 1..Len(records) |->
                    [c \in columns |->
                       IF c \in DOMAIN records[i] THEN records[i][c] ELSE NullOf(c)]]]

Empty(frame) == frame.rows = <<>>

\* df[column] = values, a value per row
WithColumn(frame, column, values) ==
    [columns |-> frame.columns \cup {column},
     rows |-> [i \in 1..Len(frame.rows) |-> Put(frame.rows[i], column, values[i])]]

\* _add_derived_columns; condition + '_' + stimulus_type is kept as the triple
add_derived_columns(frame) ==
    LET duration(r) == IF IsNaN(r.stimulus_offset) \/ IsNaN(r.stimulus_onset) THEN NoNum
                       ELSE Num(Val(r.stimulus_offset) - Val(r.stimulus_onset))
        relative(r) == IF IsNaN(r.stimulus_onset) \/ IsNaN(r.scan_start) THEN NoNum
                       ELSE Num(Val(r.stimulus_onset) - Val(r.scan_start))
        combination(r) == <<r.condition, "_", r.stimulus_type>>
        f1 == IF {"stimulus_onset", "stimulus_offset"} \subseteq frame.columns
              THEN WithColumn(frame, "stimulus_duration",
                              [i \in 1..Len(frame.rows) |-> duration(frame.rows[i])])
              ELSE frame
        f2 == IF {"scan_start", "stimulus_onset"} \subseteq f1.columns
              THEN WithColumn(f1, "relative_onset",
                              [i \in 1..Len(f1.rows) |-> relative(f1.rows[i])])
              ELSE f1
        f3 == IF {"condition", "stimulus_type"} \subseteq f2.columns
              THEN WithColumn(f2, "condition_stimulus",
                              [i \in 1..Len(f2.rows) |-> combination(f2.rows[i])])
              ELSE f2
    IN IF Empty(frame) THEN frame ELSE f3

\* the order of str values: by character code
CharOrder == <<"0", "1", "2", "3", "4", "5", "6", "7", "8", "9",
               "A", "B", "C", "D", "E", "F", "G", "H", "I", "J", "K", "L", "M",
               "N", "O", "P", "Q", "R", "S", "T", "U", "V", "W", "X", "Y", "Z", "_",
               "a", "b", "c", "d", "e", "f", "g", "h", "i", "j", "k", "l", "m",
               "n", "o", "p", "q", "r", "s", "t", "u", "v", "w", "x", "y", "z">>
Ord(c) == CHOOSE i \in 1..Len(CharOrder) : CharOrder[i] = c

StrLess(a, b) ==
    \E i \in 1..(Len(b)) :
        /\ \A k \in 1..(i - 1) : k <= Len(a) /\ a[k] = b[k]
        /\ \/ i = Len(a) + 1
           \/ i <= Len(a) /\ Ord(a[i]) < Ord(b[i])

RowLess(r1, r2) ==
    \/ StrLess(r1.participant_id, r2.participant_id)
    \/ r1.participant_id = r2.participant_id /\ r1.trial_number < r2.trial_number

RemoveAt(seq, i) == SubSeq(seq, 1, i - 1) \o SubSeq(seq, i + 1, Len(seq))

\* df.sort_values(['participant_id', 'trial_number']).reset_index(drop=True),
\* rows of equal keys keeping their order
RECURSIVE sort_values(_)
sort_values(rows) ==
    IF rows = <<>> THEN <<>>
    ELSE LET i == CHOOSE k \in 1..Len(rows) :
                    /\ \A j \in 1..Len(rows) : ~RowLess(rows[j], rows[k])
                    /\ \A j \in 1..(k - 1) : RowLess(rows[k], rows[j])
         IN <<rows[i]>> \o sort_values(RemoveAt(rows, i))

\* lines 231-243 of create_trial_dataframe
FinishDataFrame(records) ==
    LET frame == DataFrame(records)
        derived == add_derived_columns(frame)
    IN IF Empty(frame) THEN frame
       ELSE [columns |-> derived.columns, rows |-> sort_values(derived.rows)]

NoFrame == [columns |-> {}, rows |-> <<>>]

\* ------------------------------------------------------------------------
\* The S01 design: three runs, nine condition files
\* ------------------------------------------------------------------------
f_S01_PV_tool == <<"S","0","1","_","P","V","_","t","o","o","l",".","t","x","t">>
f_S01_PV_Shape == <<"S","0","1","_","P","V","_","S","h","a","p","e",".","t","x","t">>
f_S01_PV_SCRtool == <<"S","0","1","_","P","V","_","S","C","R","t","o","o","l",".","t","x","t">>
f_S01_PV_SCRshape == <<"S","0","1","_","P","V","_","S","C","R","s","h","a","p","e",".","t","x","t">>
f_S01_IG_tool == <<"S","0","1","_","I","G","_","t","o","o","l",".","t","x","t">>
f_S01_IG_shape == <<"S","0","1","_","I","G","_","s","h","a","p","e",".","t","x","t">>
f_S01_IG_SCRtool == <<"S","0","1","_","I","G","_","S","C","R","t","o","o","l",".","t","x","t">>
f_S01_IG_SCRshape == <<"S","0","1","_","I","G","_","S","C","R","s","h","a","p","e",".","t","x","t">>
f_S01_clench == <<"S","0","1","_","c","l","e","n","c","h",".","t","x","t">>

s01_log_run1 == <<"S","0","1","_","r","u","n","0","1","_","p","a","s","s","i","v","e","_","v","i","e","w","i","n","g","_","2","0","2","0","_","M","a","r","_","1","1","_","1","3","2","4",".","l","o","g">>
s01_log_run2 == <<"S","0","1","_","r","u","n","0","2","_","i","m","a","g","i","n","e","d","_","g","r","a","s","p","_","2","0","2","0","_","M","a","r","_","1","1","_","1","3","3","5",".","l","o","g">>
s01_log_run3 == <<"S","0","1","_","r","u","n","0","3","_","c","l","e","n","c","h","_","2","0","2","0","_","M","a","r","_","1","1","_","1","3","5","0",".","l","o","g">>

\* lines 630-649
s01_runs ==
    << [log_file |-> [dir |-> "S01/experimental_runs/run01_passive_viewing",
                      name |-> s01_log_run1],
        condition |-> "passive_viewing", run_number |-> 1,
        description |-> "Passive Viewing Task"],
       [log_file |-> [dir |-> "S01/experimental_runs/run02_imagined_grasp",
                      name |-> s01_log_run2],
        condition |-> "imagined_grasp", run_number |-> 2,
        description |-> "Imagined Grasp Task"],
       [log_file |-> [dir |-> "S01/experimental_runs/run03_clench",
                      name |-> s01_log_run3],
        condition |-> "clench", run_number |-> 3,
        description |-> "Clench Localizer Task"] >>

\* os.path.basename
Basename(path) == path.name

\* lines 700-711 of _get_s01_condition_files
S01Patterns(condition) ==
    IF condition = "passive_viewing"
    THEN <<f_S01_PV_tool, f_S01_PV_Shape, f_S01_PV_SCRtool, f_S01_PV_SCRshape>>
    ELSE IF condition = "imagined_grasp"
    THEN <<f_S01_IG_tool, f_S01_IG_shape, f_S01_IG_SCRtool, f_S01_IG_SCRshape>>
    ELSE IF condition = "clench"
    THEN <<f_S01_clench>>
    ELSE <<>>

S01CondNames ==
    Range(S01Patterns("passive_viewing")) \cup Range(S01Patterns("imagined_grasp"))
      \cup Range(S01Patterns("clench"))

\* lines 713-720: the patterns whose file exists, in the order of the patterns
get_s01_condition_files(condition, present) ==
    LET exists(name) == name \in present
    IN SelectSeq(S01Patterns(condition), exists)

\* the content of every readable condition file of the directories in the model
CondFileContent == << <<"1">>, <<"1", "1">> >>

\* lines 671-676: the run information written over each record
WithRunInfo(trials, run_info) ==
    [i \in 1..Len(trials) |->
       Put(Put(Put(Put(trials[i], "run_number", run_info.run_number),
                   "run_description", run_info.description),
               "participant_id", <<"S", "0", "1">>),
           "condition", run_info.condition)]

\* lines 664-678: the records of one run, one batch per existing condition file
RECURSIVE RunTrials(_, _, _)
RunTrials(log_data, condition_files, run_info) ==
    IF condition_files = <<>> THEN <<>>
    ELSE WithRunInfo(
             combine_log_condition_data(
                 log_data,
                 parse_condition_files([name |-> Head(condition_files),
                                        readable |-> TRUE,
                                        content |-> CondFileContent]).cd),
             run_info)
         \o RunTrials(log_data, Tail(condition_files), run_info)

\* line 680 reads the local `trials`, which only the loop over the condition
\* files binds: with no condition file in this run and in no run before it,
\* the read is an UnboundLocalError
ReadsUnboundTrials(condition_files, bound) == condition_files = <<>> /\ ~bound

\* log files for the runs of the model
LogLine(ts, content) == [short |-> FALSE, timestamp |-> ts, content |-> content]
l_scan == Content({"start of scan"}, None, None, NoNum, NoNum, None, None)
l_trial == Content({"New trial"}, None, None, Num(0), Num(1), s_hammer, s_tool)
l_stim == Content({"autoDraw = True"}, s_image, None, NoNum, NoNum, None, None)

LogKinds == {"second_trial_without_stimulus", "no_trial"}

\* the file of each kind; "absent" is no file at the path
LogFile(kind) ==
    CASE kind = "second_trial_without_stimulus" ->
           [exists |-> TRUE, readable |-> TRUE,
            lines |-> <<LogLine(<<"1">>, l_scan), LogLine(<<"1">>, l_trial),
                        LogLine(<<"2">>, l_stim), LogLine(<<"2">>, l_trial)>>]
      [] kind = "no_trial" ->
           [exists |-> TRUE, readable |-> TRUE, lines |-> <<>>]
      [] kind = "unreadable" ->
           [exists |-> TRUE, readable |-> FALSE, lines |-> <<>>]
      [] OTHER ->
           [exists |-> FALSE, readable |-> FALSE, lines |-> <<>>]

\* create_trial_dataframe('S01'), lines 199-212
EnterS01 ==
    /\ dpc = "start"
    /\ dpc' = "s01"
    /\ run_idx' = 1
    /\ all_trials' = <<>>
    /\ trials_bound' = FALSE
    /\ UNCHANGED <<disk_logs, disk_conds, df>>
    /\ UNCHANGED exceptS01

\* one iteration of the loop of lines 652-682
ProcessS01Run ==
    /\ dpc = "s01"
    /\ run_idx <= Len(s01_runs)
    /\ LET run_info == s01_runs[run_idx]
           log == LogFile(disk_logs[run_idx])
           log_data == parse_psychopy_logs([name |-> Basename(run_info.log_file),
                                            readable |-> log.readable,
                                            lines |-> log.lines])
           condition_files == get_s01_condition_files(run_info.condition, disk_conds)
       IN IF ~log.exists
          THEN /\ run_idx' = run_idx + 1
               /\ UNCHANGED <<dpc, all_trials, trials_bound>>
          ELSE /\ all_trials' = all_trials \o RunTrials(log_data, condition_files, run_info)
               /\ IF ReadsUnboundTrials(condition_files, trials_bound)
                  THEN dpc' = "raised" /\ UNCHANGED <<run_idx, trials_bound>>
                  ELSE /\ dpc' = dpc
                       /\ run_idx' = run_idx + 1
                       /\ trials_bound' = (trials_bound \/ condition_files # <<>>)
    /\ UNCHANGED <<disk_logs, disk_conds, df>>
    /\ UNCHANGED exceptS01

\* lines 684-685, then lines 231-243 of create_trial_dataframe
ReturnS01 ==
    /\ dpc = "s01"
    /\ run_idx > Len(s01_runs)
    /\ df' = FinishDataFrame(all_trials)
    /\ dpc' = "done"
    /\ UNCHANGED <<disk_logs, disk_conds, run_idx, all_trials, trials_bound>>
    /\ UNCHANGED exceptS01

S01Init ==
    /\ disk_logs \in [1..Len(s01_runs) -> LogKinds \cup {"absent"}]
    /\ disk_conds \in SUBSET S01CondNames
    /\ dpc = "start"
    /\ run_idx = 1
    /\ all_trials = <<>>
    /\ trials_bound = FALSE
    /\ df = NoFrame

DfIdle ==
    /\ disk_logs = [i \in 1..Len(s01_runs) |-> "absent"]
    /\ disk_conds = {}
    /\ dpc = "idle"
    /\ run_idx = 1
    /\ all_trials = <<>>
    /\ trials_bound = FALSE
    /\ df = NoFrame

S01Next == EnterS01 \/ ProcessS01Run \/ ReturnS01

\* ------------------------------------------------------------------------
\* create_trial_dataframe for a participant other than S01
\* ------------------------------------------------------------------------
MaxLogs == 2
MaxConds == 2

s_PV == <<"P", "V">>
s_IG == <<"I", "G">>
s_clench == <<"c", "l", "e", "n", "c", "h">>

\* (mutant) active_grasp given a code of its own
condition_mapping_ActiveOwnCode(condition) ==
    CASE condition = "passive_viewing" -> s_PV
      [] condition = "active_grasp" -> <<"A", "G">>
      [] condition = "clench" -> s_clench
      [] condition = "imagined_grasp" -> s_IG
      [] OTHER -> <<>>

\* lines 561-568: condition_mapping.get(condition, '')
condition_mapping(condition) ==
    CASE condition = "passive_viewing" -> s_PV
      [] condition = "active_grasp" -> s_IG
      [] condition = "clench" -> s_clench
      [] condition = "imagined_grasp" -> s_IG
      [] OTHER -> <<>>

\* _match_log_condition
match_log_condition(log_data, cond_data) ==
    IF log_data.participant_id # cond_data.participant_id THEN FALSE
    ELSE condition_mapping(log_data.condition) = cond_data.condition_type

\* the files the directories of the model can hold
LogCatalog ==
    { [name |-> <<"S","0","2","_","p","a","s","s","i","v","e",".","l","o","g">>,
       kind |-> "second_trial_without_stimulus"],
      [name |-> <<"S","0","2","_","g","r","a","s","p",".","l","o","g">>,
       kind |-> "second_trial_without_stimulus"],
      [name |-> <<"S","0","2","_","i","m","a","g","i","n","e","d",".","l","o","g">>,
       kind |-> "second_trial_without_stimulus"],
      [name |-> <<"S","0","2","_","c","l","e","n","c","h",".","l","o","g">>,
       kind |-> "second_trial_without_stimulus"],
      [name |-> <<"S","0","2","_","r","e","s","t",".","l","o","g">>,
       kind |-> "second_trial_without_stimulus"],
      [name |-> <<"S","0","3","_","p","a","s","s","i","v","e",".","l","o","g">>,
       kind |-> "second_trial_without_stimulus"],
      [name |-> <<"S","0","2","_","p","v",".","l","o","g">>,
       kind |-> "no_trial"],
      [name |-> <<"S","0","2","_","i","g",".","l","o","g">>,
       kind |-> "unreadable"] }

CondCatalog ==
    { [name |-> <<"S","0","2","_","P","V","_","t","o","o","l",".","t","x","t">>,
       readable |-> TRUE],
      [name |-> <<"S","0","2","_","I","G","_","t","o","o","l",".","t","x","t">>,
       readable |-> TRUE],
      [name |-> <<"S","0","2","_","c","l","e","n","c","h","_","f","i","s","t",".","t","x","t">>,
       readable |-> TRUE],
      [name |-> <<"S","0","3","_","P","V","_","t","o","o","l",".","t","x","t">>,
       readable |-> TRUE],
      [name |-> <<"S","0","2","_","c","l","e","n","c","h",".","t","x","t">>,
       readable |-> TRUE],
      [name |-> <<"S","0","2","_","P","V","_","s","h","a","p","e",".","t","x","t">>,
       readable |-> FALSE] }

\* the listings of a directory: at most n files of distinct names, in any order
Listings(catalog, n) ==
    {s \in UNION {[1..k -> catalog] : k \in 0..n} :
        \A i, j \in DOMAIN s : i # j => s[i].name # s[j].name}

LogDataOf(file) ==
    parse_psychopy_logs([name |-> file.name, readable |-> LogFile(file.kind).readable,
                         lines |-> LogFile(file.kind).lines])

CondDataOf(file) ==
    parse_condition_files([name |-> file.name, readable |-> file.readable,
                           content |-> IF file.readable THEN CondFileContent ELSE <<>>]).cd

\* the dicts the two parsers return for the files of the model, file by file
ParsedLogs == [f \in LogCatalog |-> LogDataOf(f)]
ParsedConds == [f \in CondCatalog |-> CondDataOf(f)]

\* lines 222-229: the records one log gives with the condition files
RECURSIVE LogTrials(_, _)
LogTrials(log_data, condition_files) ==
    IF condition_files = <<>> THEN <<>>
    ELSE (IF match_log_condition(log_data, ParsedConds[Head(condition_files)])
          THEN combine_log_condition_data(log_data, ParsedConds[Head(condition_files)])
          ELSE <<>>)
         \o LogTrials(log_data, Tail(condition_files))

\* lines 199-216
EnterParticipant ==
    /\ dpc = "start"
    /\ dpc' = "logs"
    /\ log_idx' = 1
    /\ all_trials' = <<>>
    /\ contributed' = {}
    /\ UNCHANGED <<part_logs, part_conds, df>>
    /\ UNCHANGED exceptMatch

\* one iteration of the loop of lines 219-229
ProcessLogFile ==
    /\ dpc = "logs"
    /\ log_idx <= Len(part_logs)
    /\ LET file == part_logs[log_idx]
           log_data == ParsedLogs[file]
       IN /\ all_trials' = all_trials \o LogTrials(log_data, part_conds)
          /\ contributed' = contributed \cup
                { <<file.name, part_conds[k].name,
                    Len(LogTrials(log_data, <<part_conds[k]>>))>> : k \in DOMAIN part_conds }
    /\ log_idx' = log_idx + 1
    /\ UNCHANGED <<dpc, part_logs, part_conds, df>>
    /\ UNCHANGED exceptMatch

\* lines 231-243
ReturnParticipant ==
    /\ dpc = "logs"
    /\ log_idx > Len(part_logs)
    /\ df' = FinishDataFrame(all_trials)
    /\ dpc' = "done"
    /\ UNCHANGED <<part_logs, part_conds, log_idx, all_trials, contributed>>
    /\ UNCHANGED exceptMatch

MatchInit ==
    /\ part_logs \in Listings(LogCatalog, MaxLogs)
    /\ part_conds \in Listings(CondCatalog, MaxConds)
    /\ log_idx = 1
    /\ contributed = {}
    /\ dpc = "start"
    /\ all_trials = <<>>
    /\ df = NoFrame
    /\ disk_logs = [i \in 1..Len(s01_runs) |-> "absent"]
    /\ disk_conds = {}
    /\ run_idx = 1
    /\ trials_bound = FALSE

MatchIdle ==
    /\ part_logs = <<>>
    /\ part_conds = <<>>
    /\ log_idx = 1
    /\ contributed = {}

MatchNext == EnterParticipant \/ ProcessLogFile \/ ReturnParticipant

\* ------------------------------------------------------------------------
\* run_analysis.main
\* ------------------------------------------------------------------------
MaxTrials == 2
MaxImages == 2

Begin(n) == [ev |-> "begin", phase |-> n]
End(n) == [ev |-> "end", phase |-> n]

\* (mutant) the exception swallowed where it is raised, main going on
OnException_Resume(next) == next

\* an exception of a call leaves main at once; the handler of lines 287-292
\* prints it and exits with status 1
OnException(next) == "failed"

\* a call of the given phase: it raises, or returns and main goes on to next
Call(phase, raises, next, events) ==
    IF raises
    THEN /\ mpc' = OnException(next)
         /\ raised_in' = phase
         /\ UNCHANGED phase_log
    ELSE /\ mpc' = next
         /\ phase_log' = phase_log \o events
         /\ UNCHANGED raised_in

\* lines 35-69: arguments, logging, banner, paths, "PHASE 1"
MainSetup ==
    /\ mpc = "start"
    /\ mpc' = "create_trial_dataframe"
    /\ phase_log' = <<Begin(1)>>
    /\ UNCHANGED <<verbose, raised_in, n_trials, total_images>>
    /\ UNCHANGED exceptMain

\* (mutant) main going on with an empty table
AfterTrialDataframe_GoOn(n) == "generate_data_quality_report"

\* lines 77-79: `if df.empty:` prints the error and returns
AfterTrialDataframe(n) ==
    IF n = 0 THEN "returned" ELSE "generate_data_quality_report"

\* lines 72-80: the table of S01; an empty table ends main
CallCreateTrialDataframe ==
    /\ mpc = "create_trial_dataframe"
    /\ \E raises \in BOOLEAN, n \in 0..MaxTrials :
         /\ Call(1, raises, AfterTrialDataframe(n), <<>>)
         /\ n_trials' = IF raises THEN n_trials ELSE n
    /\ UNCHANGED <<verbose, total_images>>
    /\ UNCHANGED exceptMain

\* lines 82-99
CallGenerateDataQualityReport ==
    /\ mpc = "generate_data_quality_report"
    /\ \E raises \in BOOLEAN : Call(1, raises, "export_processed_data", <<>>)
    /\ UNCHANGED <<verbose, n_trials, total_images>>
    /\ UNCHANGED exceptMain

\* lines 101-109: the export, then "PHASE 2"
CallExportProcessedData ==
    /\ mpc = "export_processed_data"
    /\ \E raises \in BOOLEAN :
         Call(1, raises, "process_all_brain_data", <<End(1), Begin(2)>>)
    /\ UNCHANGED <<verbose, n_trials, total_images>>
    /\ UNCHANGED exceptMain

\* lines 111-135: the brain images, then "PHASE 3"
CallProcessAllBrainData ==
    /\ mpc = "process_all_brain_data"
    /\ \E raises \in BOOLEAN, images \in 0..MaxImages :
         /\ Call(2, raises, "generate_comprehensive_report", <<End(2), Begin(3)>>)
         /\ total_images' = IF raises THEN total_images ELSE images
    /\ UNCHANGED <<verbose, n_trials>>
    /\ UNCHANGED exceptMain

\* lines 137-152
CallGenerateComprehensiveReport ==
    /\ mpc = "generate_comprehensive_report"
    /\ \E raises \in BOOLEAN : Call(3, raises, "compare_tools_vs_shapes", <<>>)
    /\ UNCHANGED <<verbose, n_trials, total_images>>
    /\ UNCHANGED exceptMain

\* lines 154-165: the comparison, then "PHASE 4"
CallCompareToolsVsShapes ==
    /\ mpc = "compare_tools_vs_shapes"
    /\ \E raises \in BOOLEAN : Call(3, raises, "export_all_plots", <<End(3), Begin(4)>>)
    /\ UNCHANGED <<verbose, n_trials, total_images>>
    /\ UNCHANGED exceptMain

\* lines 167-173
CallExportAllPlots ==
    /\ mpc = "export_all_plots"
    /\ \E raises \in BOOLEAN : Call(4, raises, "generate_summary_stats", <<>>)
    /\ UNCHANGED <<verbose, n_trials, total_images>>
    /\ UNCHANGED exceptMain

\* lines 175-181
CallGenerateSummaryStats ==
    /\ mpc = "generate_summary_stats"
    /\ \E raises \in BOOLEAN : Call(4, raises, "create_results_table", <<>>)
    /\ UNCHANGED <<verbose, n_trials, total_images>>
    /\ UNCHANGED exceptMain

\* lines 182-185
CallCreateResultsTable ==
    /\ mpc = "create_results_table"
    /\ \E raises \in BOOLEAN : Call(4, raises, "export_for_publication", <<>>)
    /\ UNCHANGED <<verbose, n_trials, total_images>>
    /\ UNCHANGED exceptMain

\* lines 187-191
CallExportForPublication ==
    /\ mpc = "export_for_publication"
    /\ \E raises \in BOOLEAN : Call(4, raises, "write_results_report", <<>>)
    /\ UNCHANGED <<verbose, n_trials, total_images>>
    /\ UNCHANGED exceptMain

\* lines 193-199: the report, then "PHASE 5"
CallWriteResultsReport ==
    /\ mpc = "write_results_report"
    /\ \E raises \in BOOLEAN : Call(4, raises, "summary", <<End(4), Begin(5)>>)
    /\ UNCHANGED <<verbose, n_trials, total_images>>
    /\ UNCHANGED exceptMain

\* lines 201-281: the summary of the deliverables
PrintSummary ==
    /\ mpc = "summary"
    /\ \E raises \in BOOLEAN : Call(5, raises, "completed", <<End(5)>>)
    /\ UNCHANGED <<verbose, n_trials, total_images>>
    /\ UNCHANGED exceptMain

MainInit ==
    /\ verbose \in BOOLEAN
    /\ mpc = "start"
    /\ phase_log = <<>>
    /\ raised_in = 0
    /\ n_trials = 0
    /\ total_images = 0

MainIdle ==
    /\ verbose = FALSE
    /\ mpc = "idle"
    /\ phase_log = <<>>
    /\ raised_in = 0
    /\ n_trials = 0
    /\ total_images = 0

MainNext ==
    \/ MainSetup
    \/ CallCreateTrialDataframe
    \/ CallGenerateDataQualityReport
    \/ CallExportProcessedData
    \/ CallProcessAllBrainData
    \/ CallGenerateComprehensiveReport
    \/ CallCompareToolsVsShapes
    \/ CallExportAllPlots
    \/ CallGenerateSummaryStats
    \/ CallCreateResultsTable
    \/ CallExportForPublication
    \/ CallWriteResultsReport
    \/ PrintSummary

\* ------------------------------------------------------------------------
\* export_processed_data
\* ------------------------------------------------------------------------
\* A path is the sequence of its names; its str joins them with '/'.
RECURSIVE Str(_)
Str(path) ==
    IF Len(path) <= 1 THEN path
    ELSE <<Head(path), "/">> \o Str(Tail(path))

\* Path(str): the names between the separators
PathOf(str) ==
    LET name(x) == x # "/"
    IN SelectSeq(str, name)

Joined(dir, name) == Append(dir, name)
Parent(path) == SubSeq(path, 1, Len(path) - 1)

NoArg == <<"None">>
cwd == <<>>
data_root == <<"data">>
\* line 42
processed_data_path == Joined(data_root, "processed")

\* lines 381-384
OutputDir(arg) == IF arg = NoArg THEN processed_data_path ELSE PathOf(arg)

\* (mutant) the path recorded, the workbook not written
written_NoFile(fs, path) == fs

\* a file written at the path
written(fs, path) == fs \cup {path}

\* line 385: output_dir.mkdir(exist_ok=True)
ExportMkdir ==
    /\ epc = "start"
    /\ LET out == OutputDir(output_dir)
       IN IF out \in dirs
          THEN epc' = "csv" /\ UNCHANGED dirs
          ELSE IF out \in files \/ Parent(out) \notin dirs
          THEN epc' = "raised" /\ UNCHANGED dirs
          ELSE \E denied \in BOOLEAN :
                  IF denied THEN epc' = "raised" /\ UNCHANGED dirs
                  ELSE epc' = "csv" /\ dirs' = dirs \cup {out}
    /\ exported_files' = <<>>
    /\ UNCHANGED <<files, output_dir>>
    /\ UNCHANGED exceptExport

\* a step that writes one file and records its path under the key; a failed
\* write raises, having created the file or not
ExportFile(key, name, next) ==
    LET path == Joined(OutputDir(output_dir), name)
    IN \E fails \in BOOLEAN, created \in BOOLEAN :
         IF fails \/ path \in dirs
         THEN /\ epc' = "raised"
              /\ files' = IF created /\ path \notin dirs THEN written(files, path) ELSE files
              /\ UNCHANGED exported_files
         ELSE /\ epc' = next
              /\ files' = written(files, path)
              /\ exported_files' = Put(exported_files, key, Str(path))

\* lines 389-392
ExportCsv ==
    /\ epc = "csv"
    /\ ExportFile("csv", "trial_data.csv", "excel")
    /\ UNCHANGED <<dirs, output_dir>>
    /\ UNCHANGED exceptExport

\* lines 394-397
ExportExcel ==
    /\ epc = "excel"
    /\ ExportFile("excel", "trial_data.xlsx", "report")
    /\ UNCHANGED <<dirs, output_dir>>
    /\ UNCHANGED exceptExport

\* lines 399-407: the report generated and written, the dict returned
ExportQualityReport ==
    /\ epc = "report"
    /\ ExportFile("quality_report", "data_quality_report.txt", "returned")
    /\ UNCHANGED <<dirs, output_dir>>
    /\ UNCHANGED exceptExport

\* the arguments of the model
OutputDirArgs == {NoArg, Str(<<"out">>), Str(<<"missing", "out">>)}

\* the file system before the call: the constructor has made data/processed
ExportInit ==
    /\ output_dir \in OutputDirArgs
    /\ \E out \in {"none", "dir", "file"}, old \in SUBSET {"trial_data.csv", "trial_data.xlsx"} :
         /\ dirs = {cwd, data_root, processed_data_path}
                     \cup (IF out = "dir" THEN {<<"out">>} ELSE {})
         /\ files = (IF out = "file" THEN {<<"out">>} ELSE {})
                     \cup {Joined(processed_data_path, n) : n \in old}
    /\ epc = "start"
    /\ exported_files = <<>>

ExportIdle ==
    /\ dirs = {}
    /\ files = {}
    /\ output_dir = NoArg
    /\ epc = "idle"
    /\ exported_files = <<>>

ExportNext == ExportMkdir \/ ExportCsv \/ ExportExcel \/ ExportQualityReport

\* ------------------------------------------------------------------------
\* StatisticalAnalyzer
\* ------------------------------------------------------------------------
\* The dicts the methods return are kept key by key.  The numbers the
\* statistics library computes are kept as the kind of value they are.
MaxRows == 3

s_SCRtool == <<"S", "C", "R", "t", "o", "o", "l">>
s_Shape == <<"S", "h", "a", "p", "e">>
s_SCRshape == <<"S", "C", "R", "s", "h", "a", "p", "e">>
s_shape == <<"s", "h", "a", "p", "e">>
s_S01 == <<"S", "0", "1">>
s_S02 == <<"S", "0", "2">>

tool_categories == {s_tool, s_SCRtool}
shape_categories == {s_Shape, s_SCRshape, s_shape}
motor_conditions == {"active_grasp", "imagined_grasp", "clench"}

EmptyDict == <<>>

\* df[df['stimulus_type'].isin(types)]
WithStimulus(rows, types) ==
    LET keep(r) == r.stimulus_type \in types
    IN SelectSeq(rows, keep)

\* df[df['condition'].isin(conditions)]
WithCondition(rows, conditions) ==
    LET keep(r) == r.condition \in conditions
    IN SelectSeq(rows, keep)

WithoutCondition(rows, conditions) ==
    LET keep(r) == r.condition \notin conditions
    IN SelectSeq(rows, keep)

WithParticipant(rows, pid) ==
    LET keep(r) == r.participant_id = pid
    IN SelectSeq(rows, keep)

Conditions(rows) == {rows[i].condition : i \in DOMAIN rows}
Participants(rows) == {rows[i].participant_id : i \in DOMAIN rows}
StimulusTypes(rows) == {rows[i].stimulus_type : i \in DOMAIN rows}

\* 'stimulus_onset' in columns and len(rows['stimulus_onset'].dropna()) > 0
HasOnsets(columns, rows) ==
    /\ "stimulus_onset" \in columns
    /\ \E i \in DOMAIN rows : ~IsNaN(rows[i].stimulus_onset)

t_test_dict == [t_statistic |-> "float", p_value |-> "float", significant |-> "bool"]
effect_size_dict == [cohens_d |-> "float", interpretation |-> "str"]

\* lines 124-128 and 466-470: the tests are computed when the table has the
\* onset column and each group has an onset that is not null
TestsComputed(columns, rows1, rows2) ==
    HasOnsets(columns, rows1) /\ HasOnsets(columns, rows2)

\* _within_subject_analysis(data, 'is_tool')
within_subject_analysis(columns, rows) ==
    LET paired == {pid \in Participants(rows) :
                      /\ WithStimulus(WithParticipant(rows, pid), tool_categories) # <<>>
                      /\ WithStimulus(WithParticipant(rows, pid),
                                      StimulusTypes(rows) \ tool_categories) # <<>>
                      /\ "stimulus_onset" \in columns}
    IN IF Cardinality(Participants(rows)) > 1 /\ Cardinality(paired) > 1
       THEN [paired_t_test |->
               [t_statistic |-> "float", p_value |-> "float", significant |-> "bool",
                n_participants |-> Cardinality(paired)]]
       ELSE EmptyDict

\* compare_tools_vs_shapes(condition)
compare_tools_vs_shapes(frame, condition) ==
    LET data == IF condition # NoCondition THEN WithCondition(frame.rows, {condition})
                ELSE frame.rows
        analysis_data == WithStimulus(data, tool_categories \cup shape_categories)
        tools == WithStimulus(analysis_data, tool_categories)
        shapes == WithStimulus(analysis_data, shape_categories)
        results == [analysis_type |-> "tools_vs_shapes",
                    condition |-> condition,
                    n_trials |-> Len(analysis_data),
                    n_tools |-> Len(tools),
                    n_shapes |-> Len(shapes),
                    participants |-> Cardinality(Participants(analysis_data)),
                    descriptive_stats |-> [tools |-> "describe", shapes |-> "describe"]]
        tested == IF TestsComputed(frame.columns, tools, shapes)
                  THEN Put(Put(results, "t_test", t_test_dict),
                           "effect_size", effect_size_dict)
                  ELSE results
    IN IF analysis_data = <<>> THEN [error |-> "No tool/shape data found"]
       ELSE IF results.participants > 1
       THEN Put(tested, "within_subject",
                within_subject_analysis(frame.columns, analysis_data))
       ELSE tested

\* _compare_groups
compare_groups(columns, group1, group2, group1_name, group2_name) ==
    LET results == [group1_name |-> group1_name, group2_name |-> group2_name,
                    group1_n |-> Len(group1), group2_n |-> Len(group2)]
    IN IF TestsComputed(columns, group1, group2)
       THEN Put(Put(Put(results, "t_test", t_test_dict),
                    "effect_size", effect_size_dict),
                "descriptive_stats",
                [group1 |-> [mean |-> "float", std |-> "float", median |-> "float"],
                 group2 |-> [mean |-> "float", std |-> "float", median |-> "float"]])
       ELSE results

\* the index of the first row of the condition: unique() keeps that order
FirstRow(rows, condition) ==
    CHOOSE i \in DOMAIN rows :
        /\ rows[i].condition = condition
        /\ \A k \in 1..(i - 1) : rows[k].condition # condition

\* compare_task_conditions(stimulus_type)
compare_task_conditions(frame, stimulus_type) ==
    LET data == IF stimulus_type # None THEN WithStimulus(frame.rows, {stimulus_type})
                ELSE frame.rows
        conditions == Conditions(data)
        results == [analysis_type |-> "task_conditions",
                    stimulus_type |-> stimulus_type,
                    conditions |-> conditions,
                    n_trials |-> Len(data),
                    participants |-> Cardinality(Participants(data)),
                    descriptive_stats |-> [c \in conditions |-> "describe"]]
        groups == {c \in conditions : HasOnsets(frame.columns, WithCondition(data, {c}))}
        pairs == {pr \in groups \X groups : FirstRow(data, pr[1]) < FirstRow(data, pr[2])}
    IN IF Cardinality(conditions) < 2
       THEN [error |-> "Need at least 2 conditions for comparison"]
       ELSE IF "stimulus_onset" \in frame.columns /\ Cardinality(groups) >= 2
       THEN Put(Put(results, "anova",
                    [f_statistic |-> "float", p_value |-> "float", significant |-> "bool"]),
                "pairwise_comparisons", [pr \in pairs |-> t_test_dict])
       ELSE results

\* _analyze_tool_motor_patterns
analyze_tool_motor_patterns(frame, tool_motor_data) ==
    LET results == [analysis_type |-> "tool_motor_patterns",
                    n_trials |-> Len(tool_motor_data)]
    IN IF Cardinality(Conditions(tool_motor_data)) > 1
       THEN Put(results, "motor_condition_comparison", compare_task_conditions(frame, None))
       ELSE results

\* analyze_motor_activation
analyze_motor_activation(frame) ==
    LET motor_data == WithCondition(frame.rows, motor_conditions)
        non_motor_data == WithoutCondition(frame.rows, motor_conditions)
        tool_motor_data == WithStimulus(motor_data, tool_categories)
        results == [analysis_type |-> "motor_activation",
                    motor_conditions |-> Conditions(motor_data),
                    n_trials |-> Len(motor_data),
                    participants |-> Cardinality(Participants(motor_data))]
        r1 == IF non_motor_data # <<>>
              THEN Put(results, "motor_vs_non_motor",
                       compare_groups(frame.columns, motor_data, non_motor_data,
                                      "Motor Conditions", "Non-Motor Conditions"))
              ELSE results
        r2 == Put(r1, "within_motor_conditions", compare_task_conditions(frame, None))
    IN IF motor_data = <<>> THEN [error |-> "No motor condition data found"]
       ELSE IF tool_motor_data # <<>>
       THEN Put(r2, "tool_motor_patterns", analyze_tool_motor_patterns(frame, tool_motor_data))
       ELSE r2

\* functional_vs_structural
functional_vs_structural(frame) ==
    LET functional_data == WithStimulus(frame.rows, tool_categories)
        structural_data == WithStimulus(frame.rows, shape_categories)
        both == {c \in Conditions(frame.rows) :
                    /\ WithCondition(functional_data, {c}) # <<>>
                    /\ WithCondition(structural_data, {c}) # <<>>}
    IN IF functional_data = <<>> \/ structural_data = <<>>
       THEN [error |-> "Insufficient data for functional vs structural analysis"]
       ELSE [analysis_type |-> "functional_vs_structural",
             functional_n |-> Len(functional_data),
             structural_n |-> Len(structural_data),
             participants |-> Cardinality(Participants(frame.rows)),
             comparison |-> compare_groups(frame.columns, functional_data, structural_data,
                                           "Functional Tools", "Structural Shapes"),
             by_condition |->
                 [c \in both |->
                    compare_groups(frame.columns, WithCondition(functional_data, {c}),
                                   WithCondition(structural_data, {c}),
                                   <<"Functional", c>>, <<"Structural", c>>)]]

\* the key f'tools_vs_shapes_{condition}'
ToolsVsShapesKey(condition) ==
    CASE condition = "passive_viewing" -> "tools_vs_shapes_passive_viewing"
      [] condition = "active_grasp" -> "tools_vs_shapes_active_grasp"
      [] condition = "imagined_grasp" -> "tools_vs_shapes_imagined_grasp"
      [] condition = "clench" -> "tools_vs_shapes_clench"
      [] OTHER -> "tools_vs_shapes_unknown"

\* the entries of a dict that are present, from the candidates [key, present, value]
RECURSIVE DictOf(_)
DictOf(entries) ==
    IF entries = <<>> THEN EmptyDict
    ELSE IF Head(entries).present
    THEN Put(DictOf(Tail(entries)), Head(entries).key, Head(entries).value)
    ELSE DictOf(Tail(entries))

\* analyze_rq1_tools_special
analyze_rq1_tools_special(frame) ==
    LET rows == frame.rows
        by_condition == {ToolsVsShapesKey(c) : c \in Conditions(rows)}
        condition_of(key) == CHOOSE c \in Conditions(rows) : ToolsVsShapesKey(c) = key
        per_condition == [key \in by_condition |->
                            compare_tools_vs_shapes(frame, condition_of(key))]
        scr_tools == WithStimulus(rows, {s_SCRtool})
        scr_shapes == WithStimulus(rows, {s_SCRshape})
        standard_tools == WithStimulus(rows, {s_tool})
        standard_shapes == WithStimulus(rows, {s_Shape, s_shape})
        others == DictOf(<<
            [key |-> "overall_tools_vs_shapes", present |-> TRUE,
             value |-> compare_tools_vs_shapes(frame, NoCondition)],
            [key |-> "screen_optimized_tools_vs_shapes",
             present |-> scr_tools # <<>> /\ scr_shapes # <<>>,
             value |-> compare_groups(frame.columns, scr_tools, scr_shapes,
                                      "SCR Tools", "SCR Shapes")],
            [key |-> "standard_tools_vs_shapes",
             present |-> standard_tools # <<>> /\ standard_shapes # <<>>,
             value |-> compare_groups(frame.columns, standard_tools, standard_shapes,
                                      "Standard Tools", "Standard Shapes")] >>)
    IN [research_question |-> "RQ1: Are Tools Special?",
        hypothesis |-> "Tools should show different neural activation patterns compared to shapes",
        analyses |-> [key \in DOMAIN others \cup by_condition |->
                        IF key \in by_condition THEN per_condition[key] ELSE others[key]]]

\* _analyze_interaction_effects
analyze_interaction_effects(frame) ==
    IF frame.rows # <<>>
    THEN [analysis_type |-> "interaction_effects",
          note |-> "Simplified interaction analysis - full implementation would use two-way ANOVA"]
    ELSE [analysis_type |-> "interaction_effects"]

\* analyze_rq2_action_potentiation
analyze_rq2_action_potentiation(frame) ==
    LET passive_data == WithCondition(frame.rows, {"passive_viewing"})
        active_data == WithCondition(frame.rows, {"active_grasp"})
        tool_passive == WithStimulus(passive_data, tool_categories)
        tool_active == WithStimulus(active_data, tool_categories)
        shape_passive == WithStimulus(passive_data, shape_categories)
        shape_active == WithStimulus(active_data, shape_categories)
    IN [research_question |-> "RQ2: Action Potentiation",
        hypothesis |-> "Active grasping should enhance neural responses compared to passive viewing",
        analyses |-> DictOf(<<
            [key |-> "overall_passive_vs_active",
             present |-> passive_data # <<>> /\ active_data # <<>>,
             value |-> compare_groups(frame.columns, passive_data, active_data,
                                      "Passive Viewing", "Active Grasp")],
            [key |-> "tools_passive_vs_active",
             present |-> tool_passive # <<>> /\ tool_active # <<>>,
             value |-> compare_groups(frame.columns, tool_passive, tool_active,
                                      "Tools Passive", "Tools Active")],
            [key |-> "shapes_passive_vs_active",
             present |-> shape_passive # <<>> /\ shape_active # <<>>,
             value |-> compare_groups(frame.columns, shape_passive, shape_active,
                                      "Shapes Passive", "Shapes Active")],
            [key |-> "interaction_effects", present |-> TRUE,
             value |-> analyze_interaction_effects(frame)] >>)]

\* analyze_rq3_functional_structural
analyze_rq3_functional_structural(frame) ==
    LET standard_functional == WithStimulus(frame.rows, {s_tool})
        standard_structural == WithStimulus(frame.rows, {s_Shape, s_shape})
        scr_functional == WithStimulus(frame.rows, {s_SCRtool})
        scr_structural == WithStimulus(frame.rows, {s_SCRshape})
    IN [research_question |-> "RQ3: Functional vs Structural",
        hypothesis |-> "Functional tools should show different activation patterns than neutral shapes",
        analyses |-> DictOf(<<
            [key |-> "overall_functional_vs_structural", present |-> TRUE,
             value |-> functional_vs_structural(frame)],
            [key |-> "standard_functional_vs_structural",
             present |-> standard_functional # <<>> /\ standard_structural # <<>>,
             value |-> compare_groups(frame.columns, standard_functional, standard_structural,
                                      "Standard Functional", "Standard Structural")],
            [key |-> "scr_functional_vs_structural",
             present |-> scr_functional # <<>> /\ scr_structural # <<>>,
             value |-> compare_groups(frame.columns, scr_functional, scr_structural,
                                      "SCR Functional", "SCR Structural")] >>)]

\* (mutant) the third research question left out of the report
research_questions_NoRq3(frame) ==
    [rq1 |-> analyze_rq1_tools_special(frame),
     rq2 |-> analyze_rq2_action_potentiation(frame)]

\* lines 598-601
research_questions(frame) ==
    [rq1 |-> analyze_rq1_tools_special(frame),
     rq2 |-> analyze_rq2_action_potentiation(frame),
     rq3 |-> analyze_rq3_functional_structural(frame)]

\* generate_comprehensive_report
generate_comprehensive_report(frame) ==
    [report_type |-> "comprehensive_statistical_analysis",
     data_summary |-> [total_trials |-> Len(frame.rows),
                       participants |-> Cardinality(Participants(frame.rows)),
                       conditions |-> Conditions(frame.rows),
                       stimulus_types |-> StimulusTypes(frame.rows)],
     research_questions |-> research_questions(frame),
     additional_analyses |-> [motor_activation |-> analyze_motor_activation(frame),
                              functional_vs_structural |-> functional_vs_structural(frame)]]

\* the rows the tables of the model are made of
TrialRow(pid, condition, stimulus_type, onset) ==
    [participant_id |-> pid, condition |-> condition, stimulus_type |-> stimulus_type,
     stimulus_onset |-> onset]

RowCatalog ==
    { TrialRow(s_S01, "passive_viewing", s_tool, Num(1)),
      TrialRow(s_S01, "passive_viewing", s_Shape, Num(2)),
      TrialRow(s_S02, "active_grasp", s_SCRtool, NoNum),
      TrialRow(s_S02, "active_grasp", s_SCRshape, Num(1)),
      TrialRow(s_S01, "clench", s_unknown, Num(1)),
      TrialRow(s_S02, "imagined_grasp", s_shape, Num(2)) }

BaseColumns == {"participant_id", "condition", "stimulus_type"}

\* the row without the cell of the onset column
WithoutOnset(r) == [c \in BaseColumns |-> r[c]]

\* the tables of at most MaxRows rows, with and without the onset column
Frames ==
    LET lists == UNION {[1..k -> RowCatalog] : k \in 0..MaxRows}
    IN {[columns |-> BaseColumns \cup {"stimulus_onset"}, rows |-> l] : l \in lists}
         \cup {[columns |-> BaseColumns,
                rows |-> [i \in DOMAIN l |-> WithoutOnset(l[i])]] : l \in lists}

ConditionArgs == {NoCondition, "passive_viewing", "active_grasp", "clench"}

\* analyzer.compare_tools_vs_shapes(condition)
CompareToolsVsShapes ==
    /\ \E condition \in ConditionArgs :
         /\ stats_call' = [method |-> "compare_tools_vs_shapes", condition |-> condition]
         /\ stats_result' = compare_tools_vs_shapes(analyzer_df, condition)
    /\ UNCHANGED analyzer_df
    /\ UNCHANGED exceptStats

\* analyzer.generate_comprehensive_report()
GenerateComprehensiveReport ==
    /\ stats_call' = [method |-> "generate_comprehensive_report", condition |-> NoCondition]
    /\ stats_result' = generate_comprehensive_report(analyzer_df)
    /\ UNCHANGED analyzer_df
    /\ UNCHANGED exceptStats

\* StatisticalAnalyzer(df=df)
StatsInit ==
    /\ analyzer_df \in Frames
    /\ stats_call = [method |-> "none", condition |-> NoCondition]
    /\ stats_result = EmptyDict

StatsIdle ==
    /\ analyzer_df = NoFrame
    /\ stats_call = [method |-> "none", condition |-> NoCondition]
    /\ stats_result = EmptyDict

StatsNext == CompareToolsVsShapes \/ GenerateComprehensiveReport

\* ------------------------------------------------------------------------
\* ResultsSummarizer (results_summary.py)
\* ------------------------------------------------------------------------
MaxSummaryRows == 2

\* Series.unique(): the values in the order of their first appearance
RECURSIVE Unique(_)
Unique(values) ==
    IF values = <<>> THEN <<>>
    ELSE LET before == Unique(SubSeq(values, 1, Len(values) - 1))
             last == values[Len(values)]
         IN IF \E i \in DOMAIN before : before[i] = last THEN before
            ELSE Append(before, last)

\* self.df[column]
ColumnOf(frame, column) == [i \in DOMAIN frame.rows |-> frame.rows[i][column]]

\* lines 80-85
data_overview(frame) ==
    [total_trials |-> Len(frame.rows),
     participants |-> IF "participant_id" \in frame.columns
                      THEN Cardinality(Participants(frame.rows)) ELSE 0,
     conditions |-> IF "condition" \in frame.columns
                    THEN Unique(ColumnOf(frame, "condition")) ELSE <<>>,
     stimulus_types |-> IF "stimulus_type" \in frame.columns
                        THEN Unique(ColumnOf(frame, "stimulus_type")) ELSE <<>>]

\* lines 93-103
timing_statistics(frame) ==
    IF "stimulus_onset" \in frame.columns
    THEN [mean |-> "float", std |-> "float", min |-> "float", max |-> "float",
          median |-> "float", q25 |-> "float", q75 |-> "float"]
    ELSE EmptyDict

\* lines 108-112 and 118-122: the entry of one condition or stimulus type
GroupStatistics(frame, rows) ==
    [n_trials |-> Len(rows),
     percentage |-> "float",
     participants |-> IF "participant_id" \in frame.columns
                      THEN Cardinality(Participants(rows)) ELSE 0]

\* lines 106-112
condition_statistics(frame) ==
    IF "condition" \in frame.columns
    THEN [c \in Conditions(frame.rows) |->
             GroupStatistics(frame, WithCondition(frame.rows, {c}))]
    ELSE EmptyDict

\* lines 115-122
stimulus_statistics(frame) ==
    IF "stimulus_type" \in frame.columns
    THEN [s \in StimulusTypes(frame.rows) |->
             GroupStatistics(frame, WithStimulus(frame.rows, {s}))]
    ELSE EmptyDict

\* lines 126-129: groupby('participant_id').agg({'trial_number': ...,
\* 'stimulus_onset': ...}) names both columns whichever branch of the
\* conditional expression is taken, and raises KeyError for a column the
\* table does not have; lines 132-135 then index the result by the pair
\* ('trial_number', 'count'), which is a column of it only when the other
\* entry of the agg dict is a list
AggRaises(frame) ==
    /\ "participant_id" \in frame.columns
    /\ ~({"trial_number", "stimulus_onset"} \subseteq frame.columns)

\* the number of rows of each participant
TrialCounts(frame) ==
    {Len(WithParticipant(frame.rows, p)) : p \in Participants(frame.rows)}

\* lines 125-142
participant_statistics(frame) ==
    IF "participant_id" \notin frame.columns THEN EmptyDict
    ELSE LET counts == TrialCounts(frame)
         IN [mean_trials_per_participant |-> "float",
             std_trials_per_participant |-> "float",
             min_trials |-> Min(counts),
             max_trials |-> Max(counts),
             mean_timing_per_participant |-> "float",
             std_timing_per_participant |-> "float"]

\* generate_summary_stats (lines 71-147): the exception raised, or the dict
generate_summary_stats(frame) ==
    IF AggRaises(frame)
    THEN [raised |-> "KeyError", value |-> EmptyDict]
    ELSE [raised |-> "none",
          value |-> [data_overview |-> data_overview(frame),
                     timing_statistics |-> timing_statistics(frame),
                     condition_statistics |-> condition_statistics(frame),
                     stimulus_statistics |-> stimulus_statistics(frame),
                     participant_statistics |-> participant_statistics(frame)]]

\* results.get(key, 'N/A')
GetOrNA(results, key) == IF Has(results, key) THEN results[key] ELSE "N/A"

\* lines 169-179 and 203: the columns of the results table
TableColumns ==
    {"Analysis_Type", "N_Trials", "N_Participants", "Statistical_Test",
     "Test_Statistic", "P_Value", "Significant", "Effect_Size",
     "Effect_Interpretation"}

\* lines 182-202: the keys the row of one analysis reads
RowRaises(results) ==
    \/ /\ Has(results, "t_test")
       /\ ~({"t_statistic", "p_value", "significant"} \subseteq DOMAIN results["t_test"])
    \/ /\ Has(results, "effect_size")
       /\ ~({"cohens_d", "interpretation"} \subseteq DOMAIN results["effect_size"])
    \/ /\ Has(results, "anova")
       /\ ~({"f_statistic", "p_value", "significant"} \subseteq DOMAIN results["anova"])

\* lines 169-204: the row of one analysis
TableRow(analysis_type, results) ==
    [Analysis_Type |-> analysis_type,
     N_Trials |-> GetOrNA(results, "n_trials"),
     N_Participants |-> GetOrNA(results, "participants"),
     Statistical_Test |-> IF Has(results, "anova") THEN "ANOVA"
                          ELSE IF Has(results, "t_test") THEN "t-test" ELSE "N/A",
     Test_Statistic |-> IF Has(results, "anova") \/ Has(results, "t_test")
                        THEN "str" ELSE "N/A",
     P_Value |-> IF Has(results, "anova") \/ Has(results, "t_test")
                 THEN "str" ELSE "N/A",
     Significant |-> IF Has(results, "anova") \/ Has(results, "t_test")
                     THEN "Yes/No" ELSE "N/A",
     Effect_Size |-> IF Has(results, "effect_size") THEN "str" ELSE "N/A",
     Effect_Interpretation |-> IF Has(results, "effect_size") THEN "str" ELSE "N/A"]

\* create_results_table (lines 149-214) on analysis results of which `keys`
\* lists the keys in insertion order and `dicts` the keys whose value is a
\* dict: one row for each of those
create_results_table(results) ==
    LET isdict(k) == k \in results.dicts
        analyses == SelectSeq(results.keys, isdict)
    IN IF \E i \in DOMAIN analyses : RowRaises(results.entries[analyses[i]])
       THEN [raised |-> "KeyError", value |-> NoFrame]
       ELSE [raised |-> "none",
             value |-> IF analyses = <<>> THEN NoFrame
                       ELSE [columns |-> TableColumns,
                             rows |-> [i \in DOMAIN analyses |->
                                         TableRow(analyses[i],
                                                  results.entries[analyses[i]])]]]

\* lines 357-360
PubOutputDir(arg) ==
    IF arg = NoArg THEN Joined(cwd, "publication_results") ELSE PathOf(arg)

\* summarizer.generate_summary_stats()
GenerateSummaryStats ==
    /\ spc = "ready"
    /\ summ_call' = "generate_summary_stats"
    /\ LET r == generate_summary_stats(summarizer_df)
       IN /\ spc' = IF r.raised = "none" THEN "returned" ELSE "raised"
          /\ summ_result' = r.value
    /\ UNCHANGED <<summarizer_df, analysis_results, pub_dirs, pub_files, pub_arg>>
    /\ UNCHANGED exceptSumm

\* summarizer.create_results_table()
CreateResultsTable ==
    /\ spc = "ready"
    /\ summ_call' = "create_results_table"
    /\ LET r == create_results_table(analysis_results)
       IN /\ spc' = IF r.raised = "none" THEN "returned" ELSE "raised"
          /\ summ_result' = r.value
    /\ UNCHANGED <<summarizer_df, analysis_results, pub_dirs, pub_files, pub_arg>>
    /\ UNCHANGED exceptSumm

\* export_for_publication, lines 357-364: output_dir.mkdir(exist_ok=True)
PubMkdir ==
    /\ spc = "ready"
    /\ summ_call' = "export_for_publication"
    /\ summ_result' = EmptyDict
    /\ LET out == PubOutputDir(pub_arg)
       IN IF out \in pub_dirs
          THEN spc' = "summary" /\ UNCHANGED pub_dirs
          ELSE IF out \in pub_files \/ Parent(out) \notin pub_dirs
          THEN spc' = "raised" /\ UNCHANGED pub_dirs
          ELSE spc' = "summary" /\ pub_dirs' = pub_dirs \cup {out}
    /\ UNCHANGED <<summarizer_df, analysis_results, pub_files, pub_arg>>
    /\ UNCHANGED exceptSumm

\* lines 367-373: the summary statistics generated and dumped
PubSummary ==
    /\ spc = "summary"
    /\ LET r == generate_summary_stats(summarizer_df)
           path == Joined(PubOutputDir(pub_arg), "summary_statistics.json")
       IN IF r.raised # "none"
          THEN spc' = "raised" /\ UNCHANGED <<pub_files, summ_result>>
          ELSE /\ spc' = "table"
               /\ pub_files' = written(pub_files, path)
               /\ summ_result' = Put(summ_result, "summary_json", Str(path))
    /\ UNCHANGED <<summarizer_df, analysis_results, pub_dirs, pub_arg, summ_call>>
    /\ UNCHANGED exceptSumm

\* lines 376-386: the results table, exported when it is not empty
PubTable ==
    /\ spc = "table"
    /\ LET r == create_results_table(analysis_results)
           csv_path == Joined(PubOutputDir(pub_arg), "results_table.csv")
           excel_path == Joined(PubOutputDir(pub_arg), "results_table.xlsx")
       IN IF r.raised # "none"
          THEN spc' = "raised" /\ UNCHANGED <<pub_files, summ_result>>
          ELSE IF r.value.rows = <<>>
          THEN spc' = "report" /\ UNCHANGED <<pub_files, summ_result>>
          ELSE /\ spc' = "report"
               /\ pub_files' = written(written(pub_files, csv_path), excel_path)
               /\ summ_result' = Put(Put(summ_result, "results_csv", Str(csv_path)),
                                     "results_excel", Str(excel_path))
    /\ UNCHANGED <<summarizer_df, analysis_results, pub_dirs, pub_arg, summ_call>>
    /\ UNCHANGED exceptSumm

\* lines 389-391: write_results_report(report_path) computes the statistics
\* and the table again (lines 231-234) and writes the report
PubReport ==
    /\ spc = "report"
    /\ LET path == Joined(PubOutputDir(pub_arg), "comprehensive_report.txt")
       IN IF generate_summary_stats(summarizer_df).raised # "none"
             \/ create_results_table(analysis_results).raised # "none"
          THEN spc' = "raised" /\ UNCHANGED <<pub_files, summ_result>>
          ELSE /\ spc' = "analysis"
               /\ pub_files' = written(pub_files, path)
               /\ summ_result' = Put(summ_result, "comprehensive_report", Str(path))
    /\ UNCHANGED <<summarizer_df, analysis_results, pub_dirs, pub_arg, summ_call>>
    /\ UNCHANGED exceptSumm

\* lines 394-403: the analysis results dumped if there are any; the dict returned
PubAnalysis ==
    /\ spc = "analysis"
    /\ LET path == Joined(PubOutputDir(pub_arg), "analysis_results.json")
       IN IF analysis_results.keys = <<>>
          THEN UNCHANGED <<pub_files, summ_result>>
          ELSE /\ pub_files' = written(pub_files, path)
               /\ summ_result' = Put(summ_result, "analysis_results", Str(path))
    /\ spc' = "returned"
    /\ UNCHANGED <<summarizer_df, analysis_results, pub_dirs, pub_arg, summ_call>>
    /\ UNCHANGED exceptSumm

\* analysis_results=None (line 53: {})
NoResults == [entries |-> EmptyDict, keys |-> <<>>, dicts |-> {}]

\* the results test_analysis.py builds (lines 276-297)
SampleResults ==
    LET rq == [analyses |-> "list", summary |-> "str"]
    IN [entries |-> [research_questions |-> [rq1 |-> rq, rq2 |-> rq, rq3 |-> rq],
                     summary_statistics |-> [total_trials |-> 100, participants |-> 1]],
        keys |-> <<"research_questions", "summary_statistics">>,
        dicts |-> {"research_questions", "summary_statistics"}]

\* results none of whose values is a dict
ScalarResults ==
    [entries |-> [report_type |-> "str"], keys |-> <<"report_type">>, dicts |-> {}]

\* run_analysis.py line 175: the comprehensive report of the same table
ReportResults(frame) ==
    [entries |-> generate_comprehensive_report(frame),
     keys |-> <<"report_type", "data_summary", "research_questions",
                "additional_analyses">>,
     dicts |-> {"data_summary", "research_questions", "additional_analyses"}]

\* the comparison of tools and shapes as an analysis of its own
ComparisonResults(frame) ==
    [entries |-> [tools_vs_shapes |-> compare_tools_vs_shapes(frame, NoCondition)],
     keys |-> <<"tools_vs_shapes">>,
     dicts |-> {"tools_vs_shapes"}]

AnalysisOptions(frame) ==
    {NoResults, SampleResults, ScalarResults, ReportResults(frame),
     ComparisonResults(frame)}

\* the tables of one to MaxSummaryRows rows, each with or without the
\* trial_number and stimulus_onset columns
SummaryFrames ==
    LET lists == UNION {[1..k -> RowCatalog] : k \in 1..MaxSummaryRows}
        full(l) == [i \in DOMAIN l |-> Put(l[i], "trial_number", i)]
    IN {[columns |-> BaseColumns \cup extra,
         rows |-> [i \in DOMAIN l |-> [c \in BaseColumns \cup extra |-> full(l)[i][c]]]] :
           l \in lists, extra \in SUBSET {"trial_number", "stimulus_onset"}}

PubArgs == {NoArg, Str(<<"out">>), Str(<<"missing", "out">>)}

\* ResultsSummarizer(df=df, analysis_results=...): main returns before
\* building one when the table is empty (run_analysis.py lines 78-80)
SummInit ==
    /\ summarizer_df \in SummaryFrames
    /\ analysis_results \in AnalysisOptions(summarizer_df)
    /\ pub_arg \in PubArgs
    /\ \E out \in BOOLEAN : pub_dirs = {cwd} \cup (IF out THEN {<<"out">>} ELSE {})
    /\ pub_files = {}
    /\ spc = "ready"
    /\ summ_call = "none"
    /\ summ_result = EmptyDict

SummIdle ==
    /\ summarizer_df = NoFrame
    /\ analysis_results = NoResults
    /\ pub_dirs = {}
    /\ pub_files = {}
    /\ pub_arg = NoArg
    /\ spc = "idle"
    /\ summ_call = "none"
    /\ summ_result = EmptyDict

SummNext ==
    \/ GenerateSummaryStats
    \/ CreateResultsTable
    \/ PubMkdir
    \/ PubSummary
    \/ PubTable
    \/ PubReport
    \/ PubAnalysis

\* ------------------------------------------------------------------------
\* DataVisualizer (visualization.py)
\* ------------------------------------------------------------------------
\* lines 106-108: the lambda applied to stimulus_type
stimulus_category(x) ==
    IF Lower(x) \in {s_tool, <<"s", "c", "r", "t", "o", "o", "l">>} THEN "Tool"
    ELSE IF Lower(x) \in {s_shape, <<"s", "c", "r", "s", "h", "a", "p", "e">>} THEN "Shape"
    ELSE "Other"

\* plot_behavioral_results (lines 86-147) without a save_path: with an onset
\* column the method adds the stimulus_category column to self.df and draws
\* the two box plots, without one it leaves both axes empty
plot_behavioral_results(frame) ==
    IF "stimulus_onset" \in frame.columns
    THEN WithColumn(frame, "stimulus_category",
                    [i \in DOMAIN frame.rows |->
                        stimulus_category(frame.rows[i].stimulus_type)])
    ELSE frame

\* lines 498-501
VizOutputDir(arg) == IF arg = NoArg THEN cwd ELSE PathOf(arg)

\* (mutant) every plot of the class exported
ExportedPlots_WithTiming(path) == [behavioral |-> Str(path), timing |-> Str(path)]

\* lines 505 and 511: the dict returned
ExportedPlots(path) == [behavioral |-> Str(path)]

\* lines 498-505: output_dir.mkdir(exist_ok=True)
VizMkdir ==
    /\ vpc = "start"
    /\ LET out == VizOutputDir(viz_arg)
       IN IF out \in viz_dirs
          THEN vpc' = "plot" /\ UNCHANGED viz_dirs
          ELSE IF out \in viz_files \/ Parent(out) \notin viz_dirs
          THEN vpc' = "raised" /\ UNCHANGED viz_dirs
          ELSE vpc' = "plot" /\ viz_dirs' = viz_dirs \cup {out}
    /\ UNCHANGED <<viz_df, viz_files, viz_arg, exported_plots>>
    /\ UNCHANGED exceptViz

\* line 508
PlotBehavioralResults ==
    /\ vpc = "plot"
    /\ viz_df' = plot_behavioral_results(viz_df)
    /\ vpc' = "save"
    /\ UNCHANGED <<viz_dirs, viz_files, viz_arg, exported_plots>>
    /\ UNCHANGED exceptViz

\* lines 509-514: the figure saved, the dict returned
SaveBehavioralFigure ==
    /\ vpc = "save"
    /\ LET behavioral_path == Joined(VizOutputDir(viz_arg), "behavioral_results.png")
       IN /\ viz_files' = written(viz_files, behavioral_path)
          /\ exported_plots' = ExportedPlots(behavioral_path)
    /\ vpc' = "returned"
    /\ UNCHANGED <<viz_df, viz_dirs, viz_arg>>
    /\ UNCHANGED exceptViz

\* DataVisualizer(df=df) on a table that is not empty, and the file system
\* before export_all_plots is called
VizInit ==
    /\ viz_df \in SummaryFrames
    /\ viz_arg \in PubArgs
    /\ \E out \in {"none", "dir", "file"}, old \in BOOLEAN :
         /\ viz_dirs = {cwd} \cup (IF out = "dir" THEN {<<"out">>} ELSE {})
         /\ viz_files = (IF out = "file" THEN {<<"out">>} ELSE {})
                          \cup (IF old THEN {<<"behavioral_results.png">>} ELSE {})
    /\ vpc = "start"
    /\ exported_plots = EmptyDict

VizIdle ==
    /\ viz_df = NoFrame
    /\ viz_dirs = {}
    /\ viz_files = {}
    /\ viz_arg = NoArg
    /\ vpc = "idle"
    /\ exported_plots = EmptyDict

VizNext == VizMkdir \/ PlotBehavioralResults \/ SaveBehavioralFigure

\* ------------------------------------------------------------------------
\* BrainImageProcessor (brain_image_processor.py)
\* ------------------------------------------------------------------------
\* A value whose type the code tests with isinstance carries its type; a list
\* is a sequence, a dict a function of its keys.
PyList(items) == [type |-> "list", items |-> items]
PyDict(items) == [type |-> "dict", items |-> items]

MNI(x, y, z) == [x |-> x, y |-> y, z |-> z]
\* the numbers of a stats entry, as written in the source
Stat(threshold, p, q) == [threshold |-> threshold, p |-> p, q |-> q]

\* (mutant) the mapping with the second stats entry of passive_viewing missing
brain_image_mapping_ShortStats ==
    [clench |->
        [filename |-> "clench_afni.png",
         condition |-> "Clench Localizer",
         description |-> "Finger clenching task - M1 activation",
         regions |-> <<"Primary Motor Cortex (M1)", "Brodmann Area 4", "Brodmann Area 6">>,
         mni_coords |-> PyDict(MNI(-40, 22, 62)),
         stats |-> PyDict(Stat("3.7037", "2.3e-4", "0.0047"))],
     imagined_grasp |->
        [filename |-> "IGshape_tool_vs_PVshape_tool_GLT#0_Tstat.png",
         condition |-> "Imagined Grasp (Tools + Shapes)",
         description |-> "Imagined grasping task - combined tools and shapes",
         regions |-> <<"Left superior frontal gyrus", "Parietal lobe",
                       "LOC (Lateral Occipital Complex)">>,
         mni_coords |-> PyList(<<MNI(24, -58, 22), MNI(24, 50, 54), MNI(24, 90, 24)>>),
         stats |-> PyList(<<Stat("3.5391", "0.0016", "0.0199"),
                            Stat("3.5391", "0.0016", "0.0199"),
                            Stat("3.1687", "0.0016", "0.0199")>>)],
     passive_viewing |->
        [filename |-> "results.png",
         condition |-> "Passive Viewing: Tool vs Shape",
         description |-> "Passive viewing contrast - tools vs shapes",
         regions |-> <<"LOC; V1; V2; BA 18/17", "Left Pre/Postcentral Gyrus; BA 3-5">>,
         mni_coords |-> PyList(<<MNI(22, 100, -2), MNI(10, 44, 70)>>),
         stats |-> PyList(<<Stat("3.5802", "3.7e-4", "0.0111")>>)],
     imagined_vs_passive |->
        [filename |-> "Screen Shot 2020-04-21 at 4.01.26 AM.png",
         condition |-> "Average Imagined Grasp vs Passive Viewing",
         description |-> "Contrast between imagined grasp and passive viewing",
         regions |-> <<"Left superior frontal gyrus", "Brodmann Area 6",
                       "Left superior parietal lobe">>,
         mni_coords |-> PyList(<<MNI(22, -54, 18), MNI(22, 10, 68), MNI(22, 48, 68)>>),
         stats |-> PyList(<<Stat("3.5391", "4.4e-4", "0.0533"),
                            Stat("3.5391", "4.4e-4", "0.0533"),
                            Stat("3.5391", "4.4e-4", "0.0533")>>)]]

\* lines 45-98: self.brain_image_mapping
brain_image_mapping ==
    [clench |->
        [filename |-> "clench_afni.png",
         condition |-> "Clench Localizer",
         description |-> "Finger clenching task - M1 activation",
         regions |-> <<"Primary Motor Cortex (M1)", "Brodmann Area 4", "Brodmann Area 6">>,
         mni_coords |-> PyDict(MNI(-40, 22, 62)),
         stats |-> PyDict(Stat("3.7037", "2.3e-4", "0.0047"))],
     imagined_grasp |->
        [filename |-> "IGshape_tool_vs_PVshape_tool_GLT#0_Tstat.png",
         condition |-> "Imagined Grasp (Tools + Shapes)",
         description |-> "Imagined grasping task - combined tools and shapes",
         regions |-> <<"Left superior frontal gyrus", "Parietal lobe",
                       "LOC (Lateral Occipital Complex)">>,
         mni_coords |-> PyList(<<MNI(24, -58, 22), MNI(24, 50, 54), MNI(24, 90, 24)>>),
         stats |-> PyList(<<Stat("3.5391", "0.0016", "0.0199"),
                            Stat("3.5391", "0.0016", "0.0199"),
                            Stat("3.1687", "0.0016", "0.0199")>>)],
     passive_viewing |->
        [filename |-> "results.png",
         condition |-> "Passive Viewing: Tool vs Shape",
         description |-> "Passive viewing contrast - tools vs shapes",
         regions |-> <<"LOC; V1; V2; BA 18/17", "Left Pre/Postcentral Gyrus; BA 3-5">>,
         mni_coords |-> PyList(<<MNI(22, 100, -2), MNI(10, 44, 70)>>),
         stats |-> PyList(<<Stat("3.5802", "3.7e-4", "0.0111"),
                            Stat("3.5802", "3.7e-4", "0.0111")>>)],
     imagined_vs_passive |->
        [filename |-> "Screen Shot 2020-04-21 at 4.01.26 AM.png",
         condition |-> "Average Imagined Grasp vs Passive Viewing",
         description |-> "Contrast between imagined grasp and passive viewing",
         regions |-> <<"Left superior frontal gyrus", "Brodmann Area 6",
                       "Left superior parietal lobe">>,
         mni_coords |-> PyList(<<MNI(22, -54, 18), MNI(22, 10, 68), MNI(22, 48, 68)>>),
         stats |-> PyList(<<Stat("3.5391", "4.4e-4", "0.0533"),
                            Stat("3.5391", "4.4e-4", "0.0533"),
                            Stat("3.5391", "4.4e-4", "0.0533")>>)]]

\* what the file of a mapped image can be: missing, an image, a file
\* Image.open rejects, an image that opens and cannot be saved
ImageKinds == {"absent", "image", "corrupt", "truncated"}

\* (mutant) the first file that does not open ends the loading
load_brain_images_AbortOnError(raw) ==
    IF \E c \in DOMAIN brain_image_mapping : raw[c] = "corrupt" THEN EmptyDict
    ELSE [c \in {k \in DOMAIN brain_image_mapping : raw[k] \in {"image", "truncated"}} |->
             [image |-> raw[c]] @@ brain_image_mapping[c]]

\* load_brain_images (lines 104-146): the entries of the files that exist and open
load_brain_images(raw) ==
    LET loaded == {c \in DOMAIN brain_image_mapping : raw[c] \in {"image", "truncated"}}
    IN [c \in loaded |-> [image |-> raw[c]] @@ brain_image_mapping[c]]

\* lines 163-176: the lines of one condition, or the IndexError of regions[i]
SummaryLines(data) ==
    LET coords == data.mni_coords
    IN IF coords.type = "list"
       THEN IF Len(coords.items) > Len(data.regions)
            THEN [raised |-> "IndexError", lines |-> <<>>]
            ELSE [raised |-> "none",
                  lines |-> <<[line |-> "condition", text |-> data.condition],
                              [line |-> "description", text |-> data.description],
                              [line |-> "regions", text |-> data.regions],
                              [line |-> "coordinates"]>>
                            \o [i \in DOMAIN coords.items |->
                                  [line |-> "region", text |-> data.regions[i],
                                   coords |-> coords.items[i]]]]
       ELSE [raised |-> "none",
             lines |-> <<[line |-> "condition", text |-> data.condition],
                         [line |-> "description", text |-> data.description],
                         [line |-> "regions", text |-> data.regions],
                         [line |-> "coordinates", coords |-> coords.items]>>]

\* create_brain_image_summary (lines 148-178): condition -> its lines
create_brain_image_summary(data) ==
    LET each == [c \in DOMAIN data |-> SummaryLines(data[c])]
    IN IF \E c \in DOMAIN data : each[c].raised # "none"
       THEN [raised |-> "IndexError", value |-> EmptyDict]
       ELSE [raised |-> "none", value |-> [c \in DOMAIN data |-> each[c].lines]]

\* lines 233-245 and 248-256: a row of the table
StatRow(region, coord, stat) ==
    [region |-> region, mni_x |-> coord.x, mni_y |-> coord.y, mni_z |-> coord.z,
     threshold |-> stat.threshold, p_value |-> stat.p, q_value |-> stat.q]

\* lines 227-256: the table of one condition, or the exception of an index
\* or key the data does not have
TableData(data) ==
    LET coords == data.mni_coords
        stats == data.stats
    IN IF coords.type = "list"
       THEN IF data.regions # <<>> /\ stats.type # "list"
            THEN [raised |-> "KeyError", rows |-> <<>>]
            ELSE IF \/ Len(data.regions) > Len(coords.items)
                    \/ Len(data.regions) > Len(stats.items)
            THEN [raised |-> "IndexError", rows |-> <<>>]
            ELSE [raised |-> "none",
                  rows |-> [i \in DOMAIN data.regions |->
                              StatRow(data.regions[i], coords.items[i], stats.items[i])]]
       ELSE IF data.regions = <<>>
            THEN [raised |-> "IndexError", rows |-> <<>>]
            ELSE IF stats.type # "dict"
            THEN [raised |-> "TypeError", rows |-> <<>>]
            ELSE [raised |-> "none",
                  rows |-> <<StatRow(data.regions[1], coords.items, stats.items)>>]

\* generate_statistical_tables (lines 216-267)
generate_statistical_tables(data) ==
    LET each == [c \in DOMAIN data |-> TableData(data[c])]
    IN IF \E c \in DOMAIN data : each[c].raised # "none"
       THEN [raised |-> "IndexError", value |-> EmptyDict]
       ELSE [raised |-> "none", value |-> [c \in DOMAIN data |-> each[c].rows]]

\* lines 41-43
brain_root == <<"data">>
raw_data_path == Joined(brain_root, "raw")
brain_processed_path == Joined(brain_root, "processed")
\* lines 191-192
brain_images_dir == Joined(brain_processed_path, "brain_images")

\* line 283: brain_data = self.load_brain_images()
LoadBrainImages ==
    /\ bpc = "start"
    /\ brain_data' = load_brain_images(raw_images)
    /\ bpc' = "summary"
    /\ UNCHANGED <<raw_images, brain_dirs, brain_files, brain_summary, brain_exported,
                   statistical_tables, brain_results>>
    /\ UNCHANGED exceptBrain

\* line 286: summary = self.create_brain_image_summary(brain_data)
CreateBrainImageSummary ==
    /\ bpc = "summary"
    /\ LET r == create_brain_image_summary(brain_data)
       IN /\ bpc' = IF r.raised = "none" THEN "export" ELSE "raised"
          /\ brain_summary' = r.value
    /\ UNCHANGED <<raw_images, brain_dirs, brain_files, brain_data, brain_exported,
                   statistical_tables, brain_results>>
    /\ UNCHANGED exceptBrain

\* line 289, export_brain_images (lines 180-214): mkdir(exist_ok=True) of
\* processed/brain_images, then each image saved; a save that fails is logged
ExportBrainImages ==
    /\ bpc = "export"
    /\ IF brain_images_dir \notin brain_dirs
          /\ (brain_images_dir \in brain_files \/ Parent(brain_images_dir) \notin brain_dirs)
       THEN /\ bpc' = "raised"
            /\ UNCHANGED <<brain_dirs, brain_files, brain_exported>>
       ELSE LET saved == {c \in DOMAIN brain_data : brain_data[c].image = "image"}
                output_path(c) == Joined(brain_images_dir, <<c, "_brain_activation.png">>)
            IN /\ bpc' = "tables"
               /\ brain_dirs' = brain_dirs \cup {brain_images_dir}
               /\ brain_files' = brain_files \cup {output_path(c) : c \in saved}
               /\ brain_exported' = [c \in saved |-> output_path(c)]
    /\ UNCHANGED <<raw_images, brain_data, brain_summary, statistical_tables, brain_results>>
    /\ UNCHANGED exceptBrain

\* line 292: statistical_tables = self.generate_statistical_tables(brain_data)
GenerateStatisticalTables ==
    /\ bpc = "tables"
    /\ LET r == generate_statistical_tables(brain_data)
       IN /\ bpc' = IF r.raised = "none" THEN "compile" ELSE "raised"
          /\ statistical_tables' = r.value
    /\ UNCHANGED <<raw_images, brain_dirs, brain_files, brain_data, brain_summary,
                   brain_exported, brain_results>>
    /\ UNCHANGED exceptBrain

\* lines 295-304: the results compiled and returned
CompileBrainResults ==
    /\ bpc = "compile"
    /\ brain_results' = [brain_data |-> brain_data,
                         summary |-> brain_summary,
                         exported_files |-> brain_exported,
                         statistical_tables |-> statistical_tables,
                         total_images |-> Cardinality(DOMAIN brain_data)]
    /\ bpc' = "returned"
    /\ UNCHANGED <<raw_images, brain_dirs, brain_files, brain_data, brain_summary,
                   brain_exported, statistical_tables>>
    /\ UNCHANGED exceptBrain

\* BrainImageProcessor(data_root): the files under raw/ and the directories
\* of processed/ as the call finds them
BrainInit ==
    /\ raw_images \in [DOMAIN brain_image_mapping -> ImageKinds]
    /\ \E out \in {"no_processed", "processed", "brain_images", "file"} :
         /\ brain_dirs = {brain_root, raw_data_path}
                \cup (IF out = "no_processed" THEN {} ELSE {brain_processed_path})
                \cup (IF out = "brain_images" THEN {brain_images_dir} ELSE {})
         /\ brain_files = IF out = "file" THEN {brain_images_dir} ELSE {}
    /\ bpc = "start"
    /\ brain_data = EmptyDict
    /\ brain_summary = EmptyDict
    /\ brain_exported = EmptyDict
    /\ statistical_tables = EmptyDict
    /\ brain_results = EmptyDict

BrainIdle ==
    /\ raw_images = EmptyDict
    /\ brain_dirs = {}
    /\ brain_files = {}
    /\ bpc = "idle"
    /\ brain_data = EmptyDict
    /\ brain_summary = EmptyDict
    /\ brain_exported = EmptyDict
    /\ statistical_tables = EmptyDict
    /\ brain_results = EmptyDict

BrainNext ==
    \/ LoadBrainImages
    \/ CreateBrainImageSummary
    \/ ExportBrainImages
    \/ GenerateStatisticalTables
    \/ CompileBrainResults

\* ------------------------------------------------------------------------
\* A log with timestamps in order, parsed and combined (lines 222-229)
\* ------------------------------------------------------------------------
l_trial_stim == Content({"New trial", "autoDraw = True"}, s_image, None,
                        Num(0), Num(1), s_hammer, s_tool)
l_other == Content({}, None, None, NoNum, NoNum, None, None)

\* the lines of the logs of this part: numeric timestamps
OrderedLines ==
    [short : {FALSE}, timestamp : {<<"1">>, <<"2">>},
     content : {l_scan, l_trial, l_stim, l_trial_stim, l_other}]

\* the logs of at most MaxLines lines whose timestamps do not decrease
OrderedLogs ==
    {l \in UNION {[1..k -> OrderedLines] : k \in 0..MaxLines} :
        \A i \in 1..(Len(l) - 1) :
            Float(l[i].timestamp).val <= Float(l[i + 1].timestamp).val}

\* line 220: log_data = self.parse_psychopy_logs(str(log_file))
CombParse ==
    /\ comb_pc = "start"
    /\ comb_log_data' = parse_psychopy_logs(comb_log)
    /\ comb_pc' = "parsed"
    /\ UNCHANGED <<comb_log, comb_records>>
    /\ UNCHANGED exceptComb

\* lines 223-229: the log combined with a condition file
CombCombine ==
    /\ comb_pc = "parsed"
    /\ \E f \in CondCatalog :
         comb_records' = combine_log_condition_data(comb_log_data, ParsedConds[f])
    /\ comb_pc' = "combined"
    /\ UNCHANGED <<comb_log, comb_log_data>>
    /\ UNCHANGED exceptComb

CombInit ==
    /\ comb_log \in [name : LogNames, readable : {TRUE}, lines : OrderedLogs]
    /\ comb_pc = "start"
    /\ comb_log_data = EmptyDict
    /\ comb_records = <<>>

CombIdle ==
    /\ comb_log = [name |-> None, readable |-> FALSE, lines |-> <<>>]
    /\ comb_pc = "idle"
    /\ comb_log_data = EmptyDict
    /\ comb_records = <<>>

CombNext == CombParse \/ CombCombine

\* ------------------------------------------------------------------------
\* _extract_participant_id on file names (lines 411-428)
\* ------------------------------------------------------------------------
MaxNameLen == 4

\* the characters of the file names of this part: the 'S' of the first
\* pattern, digits, the '_' of the other patterns and a letter
NameChars == {"S", "1", "7", "_", "a"}

FileNames == UNION {[1..k -> NameChars] : k \in 0..MaxNameLen}

\* participant_id = self._extract_participant_id(filename)
ExtractParticipantId ==
    /\ id_pc = "start"
    /\ id_result' = extract_participant_id(id_filename)
    /\ id_pc' = "extracted"
    /\ UNCHANGED <<id_filename, id_again>>
    /\ UNCHANGED exceptId

\* the function applied to its own result
ExtractParticipantIdAgain ==
    /\ id_pc = "extracted"
    /\ id_again' = extract_participant_id(id_result)
    /\ id_pc' = "again"
    /\ UNCHANGED <<id_filename, id_result>>
    /\ UNCHANGED exceptId

IdInit ==
    /\ id_filename \in FileNames
    /\ id_pc = "start"
    /\ id_result = None
    /\ id_again = None

IdIdle ==
    /\ id_filename = None
    /\ id_pc = "idle"
    /\ id_result = None
    /\ id_again = None

IdNext == ExtractParticipantId \/ ExtractParticipantIdAgain

\* ------------------------------------------------------------------------
\* The experiment scripts (experiments/passive_viewing.py, active_grasp.py)
\* ------------------------------------------------------------------------
\* The two scripts have the same structure, line for line up to the names of
\* the routines and components; the lines named are those of passive_viewing.py.
Scripts == {"passive_viewing", "active_grasp"}

\* nReps of trials_5
NReps == 5

\* the trials of an inner loop in the model (the scripts select 8 conditions)
MaxItems == 2

\* the routines of one repetition of trials_5, in order (lines 343-1297)
Body == <<"blockON", "SCRtool", "blockOFF", "pause",
          "blockON", "tool", "blockOFF", "pause",
          "blockON", "SCRshape", "blockOFF", "pause",
          "blockON", "shape">>

\* the routines that run inside an inner loop (trials, trials_2, trials_3, trials_4)
ImageRoutines == {"SCRtool", "tool", "SCRshape", "shape"}

\* the routine that runs, by its name in passive_viewing.py
CurrentRoutine ==
    CASE exp_where = "launch" -> "launch_scan"
      [] exp_where = "instruction" -> "Passive_Viewing"
      [] exp_where = "trials" -> Body[exp_idx]
      [] exp_where = "final" -> "blockOFF"
      [] OTHER -> "none"

\* the component of the routine: launch_scan, blockON and blockOFF have none
ComponentOf(routine) ==
    CASE routine = "Passive_Viewing" -> "Introduction"
      [] routine = "pause" -> "rest"
      [] routine \in ImageRoutines -> "image"
      [] OTHER -> "none"

\* lines 38-41: the dialog; cancel quits
ShowDialog ==
    /\ exp_where = "dialog"
    /\ \E ok \in BOOLEAN :
         IF ok THEN exp_where' = "launch" /\ exp_phase' = "prepare"
         ELSE exp_where' = "quit" /\ exp_phase' = "none"
    /\ UNCHANGED <<exp_script, exp_status, exp_rep, exp_idx, exp_items,
                   launch_scans, pulsetime, shown, routines_ended>>
    /\ UNCHANGED exceptExp

\* "Prepare to start Routine" (lines 206-222): the components not started
PrepareRoutine ==
    /\ exp_where \in {"launch", "instruction", "trials", "final"}
    /\ exp_phase = "prepare"
    /\ exp_phase' = "run"
    /\ exp_status' = IF ComponentOf(CurrentRoutine) = "none" THEN "none" ELSE "NOT_STARTED"
    /\ UNCHANGED <<exp_script, exp_where, exp_rep, exp_idx, exp_items,
                   launch_scans, pulsetime, shown, routines_ended>>
    /\ UNCHANGED exceptExp

\* the status of the component after the updates of one frame (lines 290-305):
\* a component not started is drawn, a started one stops when its time is up
UpdatedStatus(status, time_up) ==
    IF status = "none" THEN "none"
    ELSE IF time_up THEN "FINISHED"
    ELSE "STARTED"

\* one iteration of "Run Routine" (lines 224-248): the updates of the
\* components, the check for escape, the check whether a component still runs
RunFrame ==
    /\ exp_where \in {"launch", "instruction", "trials", "final"}
    /\ exp_phase = "run"
    /\ \E escape \in BOOLEAN, time_up \in BOOLEAN, timer_ran_out \in BOOLEAN :
         /\ exp_status' = UpdatedStatus(exp_status, time_up)
         /\ shown' = IF exp_status = "NOT_STARTED"
                     THEN shown \cup {ComponentOf(CurrentRoutine)}
                     ELSE shown
         /\ IF escape
            THEN exp_where' = "quit" /\ exp_phase' = "none"
            ELSE /\ exp_where' = exp_where
                 /\ exp_phase' = IF exp_status' \in {"none", "FINISHED"} \/ timer_ran_out
                                 THEN "end" ELSE "run"
    /\ UNCHANGED <<exp_script, exp_rep, exp_idx, exp_items,
                   launch_scans, pulsetime, routines_ended>>
    /\ UNCHANGED exceptExp

\* what follows a routine or an inner loop of trials_5: the next routine of the
\* repetition, the next repetition, or after the last one the final blockOFF
NextInRepetition ==
    /\ exp_items' = 0
    /\ IF exp_idx < Len(Body)
       THEN /\ exp_idx' = exp_idx + 1
            /\ exp_phase' = IF Body[exp_idx + 1] \in ImageRoutines THEN "loop" ELSE "prepare"
            /\ UNCHANGED <<exp_where, exp_rep>>
       ELSE IF exp_rep < NReps
       THEN /\ exp_rep' = exp_rep + 1
            /\ exp_idx' = 1
            /\ exp_phase' = "prepare"
            /\ UNCHANGED exp_where
       ELSE /\ exp_where' = "final"
            /\ exp_phase' = "prepare"
            /\ UNCHANGED <<exp_rep, exp_idx>>

\* (mutant) the script going from the launch routine to the instruction
AfterLaunchRoutine_SkipScan == "instruction"

\* line 254 follows the end of the launch routine
AfterLaunchRoutine == "launchScan"

\* "Ending Routine" (lines 250-253) and what follows the routine: the call
\* of launchScan, the loop trials_5, the next routine or trial, the saving
EndRoutine ==
    /\ exp_where \in {"launch", "instruction", "trials", "final"}
    /\ exp_phase = "end"
    /\ routines_ended' = routines_ended \cup {CurrentRoutine}
    /\ CASE exp_where = "launch" ->
              /\ exp_where' = AfterLaunchRoutine
              /\ exp_phase' = IF AfterLaunchRoutine = "launchScan" THEN "none" ELSE "prepare"
              /\ UNCHANGED <<exp_rep, exp_idx, exp_items>>
         [] exp_where = "instruction" ->
              /\ exp_where' = "trials"
              /\ exp_phase' = "prepare"
              /\ exp_rep' = 1
              /\ exp_idx' = 1
              /\ UNCHANGED exp_items
         [] exp_where = "trials" /\ Body[exp_idx] \in ImageRoutines /\ exp_items > 1 ->
              /\ exp_items' = exp_items - 1
              /\ exp_phase' = "prepare"
              /\ UNCHANGED <<exp_where, exp_rep, exp_idx>>
         [] exp_where = "trials" /\ ~(Body[exp_idx] \in ImageRoutines /\ exp_items > 1) ->
              NextInRepetition
         [] exp_where = "final" ->
              /\ exp_where' = "save"
              /\ exp_phase' = "none"
              /\ UNCHANGED <<exp_rep, exp_idx, exp_items>>
    /\ UNCHANGED <<exp_script, exp_status, launch_scans, pulsetime, shown>>
    /\ UNCHANGED exceptExp

\* line 254: vol = launchScan(win, scanner_settings, globalClock=globalClock, mode='Scan')
LaunchScan ==
    /\ exp_where = "launchScan"
    /\ launch_scans' = launch_scans + 1
    /\ exp_where' = "pulsetime"
    /\ UNCHANGED <<exp_script, exp_phase, exp_status, exp_rep, exp_idx, exp_items,
                   pulsetime, shown, routines_ended>>
    /\ UNCHANGED exceptExp

\* lines 256-260: pulsetime recorded, then the instruction routine
RecordPulsetime ==
    /\ exp_where = "pulsetime"
    /\ pulsetime' = TRUE
    /\ exp_where' = "instruction"
    /\ exp_phase' = "prepare"
    /\ UNCHANGED <<exp_script, exp_status, exp_rep, exp_idx, exp_items,
                   launch_scans, shown, routines_ended>>
    /\ UNCHANGED exceptExp

\* lines 404-415: the TrialHandler of an inner loop, of n selected conditions;
\* importConditions raises when the file cannot be read
StartTrials ==
    /\ exp_where = "trials"
    /\ exp_phase = "loop"
    /\ \E raises \in BOOLEAN, n \in 0..MaxItems :
         IF raises
         THEN /\ exp_where' = "raised"
              /\ exp_phase' = "none"
              /\ UNCHANGED <<exp_rep, exp_idx, exp_items>>
         ELSE IF n > 0
         THEN /\ exp_items' = n
              /\ exp_phase' = "prepare"
              /\ UNCHANGED <<exp_where, exp_rep, exp_idx>>
         ELSE NextInRepetition
    /\ UNCHANGED <<exp_script, exp_status, launch_scans, pulsetime, shown, routines_ended>>
    /\ UNCHANGED exceptExp

\* lines 1355-1366: the data saved, the window closed, core.quit()
SaveAndQuit ==
    /\ exp_where = "save"
    /\ exp_where' = "ended"
    /\ UNCHANGED <<exp_script, exp_phase, exp_status, exp_rep, exp_idx, exp_items,
                   launch_scans, pulsetime, shown, routines_ended>>
    /\ UNCHANGED exceptExp

ExpInit ==
    /\ exp_script \in Scripts
    /\ exp_where = "dialog"
    /\ exp_phase = "none"
    /\ exp_status = "none"
    /\ exp_rep = 0
    /\ exp_idx = 0
    /\ exp_items = 0
    /\ launch_scans = 0
    /\ pulsetime = FALSE
    /\ shown = {}
    /\ routines_ended = {}

ExpIdle ==
    /\ exp_script = "none"
    /\ exp_where = "idle"
    /\ exp_phase = "none"
    /\ exp_status = "none"
    /\ exp_rep = 0
    /\ exp_idx = 0
    /\ exp_items = 0
    /\ launch_scans = 0
    /\ pulsetime = FALSE
    /\ shown = {}
    /\ routines_ended = {}

ExpNext ==
    \/ ShowDialog
    \/ PrepareRoutine
    \/ RunFrame
    \/ EndRoutine
    \/ LaunchScan
    \/ RecordPulsetime
    \/ StartTrials
    \/ SaveAndQuit

InitLog == LogInit /\ CondIdle /\ DfIdle /\ MatchIdle /\ MainIdle /\ ExportIdle /\ StatsIdle /\ SummIdle /\ VizIdle /\ BrainIdle /\ CombIdle /\ IdIdle /\ ExpIdle
SpecLog == InitLog /\ [][LogNext]_vars

InitCond == CondInit /\ LogIdle /\ DfIdle /\ MatchIdle /\ MainIdle /\ ExportIdle /\ StatsIdle /\ SummIdle /\ VizIdle /\ BrainIdle /\ CombIdle /\ IdIdle /\ ExpIdle
SpecCond == InitCond /\ [][CondNext]_vars

InitS01 == S01Init /\ LogIdle /\ CondIdle /\ MatchIdle /\ MainIdle /\ ExportIdle /\ StatsIdle /\ SummIdle /\ VizIdle /\ BrainIdle /\ CombIdle /\ IdIdle /\ ExpIdle
SpecS01 == InitS01 /\ [][S01Next]_vars

InitMatch == MatchInit /\ LogIdle /\ CondIdle /\ MainIdle /\ ExportIdle /\ StatsIdle /\ SummIdle /\ VizIdle /\ BrainIdle /\ CombIdle /\ IdIdle /\ ExpIdle
SpecMatch == InitMatch /\ [][MatchNext]_vars

InitMain == MainInit /\ LogIdle /\ CondIdle /\ DfIdle /\ MatchIdle /\ ExportIdle /\ StatsIdle /\ SummIdle /\ VizIdle /\ BrainIdle /\ CombIdle /\ IdIdle /\ ExpIdle
SpecMain == InitMain /\ [][MainNext]_vars

InitExport == ExportInit /\ LogIdle /\ CondIdle /\ DfIdle /\ MatchIdle /\ MainIdle /\ StatsIdle /\ SummIdle /\ VizIdle /\ BrainIdle /\ CombIdle /\ IdIdle /\ ExpIdle
SpecExport == InitExport /\ [][ExportNext]_vars

InitStats == StatsInit /\ LogIdle /\ CondIdle /\ DfIdle /\ MatchIdle /\ MainIdle /\ ExportIdle /\ SummIdle /\ VizIdle /\ BrainIdle /\ CombIdle /\ IdIdle /\ ExpIdle
SpecStats == InitStats /\ [][StatsNext]_vars

InitSumm == SummInit /\ LogIdle /\ CondIdle /\ DfIdle /\ MatchIdle /\ MainIdle /\ ExportIdle /\ StatsIdle /\ VizIdle /\ BrainIdle /\ CombIdle /\ IdIdle /\ ExpIdle
SpecSumm == InitSumm /\ [][SummNext]_vars

InitViz == VizInit /\ LogIdle /\ CondIdle /\ DfIdle /\ MatchIdle /\ MainIdle /\ ExportIdle /\ StatsIdle /\ SummIdle /\ BrainIdle /\ CombIdle /\ IdIdle /\ ExpIdle
SpecViz == InitViz /\ [][VizNext]_vars

InitBrain == BrainInit /\ LogIdle /\ CondIdle /\ DfIdle /\ MatchIdle /\ MainIdle /\ ExportIdle /\ StatsIdle /\ SummIdle /\ VizIdle /\ CombIdle /\ IdIdle /\ ExpIdle
SpecBrain == InitBrain /\ [][BrainNext]_vars

InitComb == CombInit /\ LogIdle /\ CondIdle /\ DfIdle /\ MatchIdle /\ MainIdle /\ ExportIdle /\ StatsIdle /\ SummIdle /\ VizIdle /\ BrainIdle /\ IdIdle /\ ExpIdle
SpecComb == InitComb /\ [][CombNext]_vars

\* create_trial_dataframe for S01 or for another participant
InitFrame == InitS01 \/ InitMatch
FrameNext == S01Next \/ MatchNext
SpecFrame == InitFrame /\ [][FrameNext]_vars

InitId == IdInit /\ LogIdle /\ CondIdle /\ DfIdle /\ MatchIdle /\ MainIdle /\ ExportIdle /\ StatsIdle /\ SummIdle /\ VizIdle /\ BrainIdle /\ CombIdle /\ ExpIdle
SpecId == InitId /\ [][IdNext]_vars

InitExp == ExpInit /\ LogIdle /\ CondIdle /\ DfIdle /\ MatchIdle /\ MainIdle /\ ExportIdle /\ StatsIdle /\ SummIdle /\ VizIdle /\ BrainIdle /\ CombIdle /\ IdIdle
SpecExp == InitExp /\ [][ExpNext]_vars

\* ---- claims about parse_psychopy_logs ----------------------------------
\* the line satisfies the condition of one of the five `if`s of the loop body
MatchedLine(line, started) ==
    /\ ~line.short
    /\ \/ "start of scan" \in line.content.has
       \/ started /\ line.content.has \ {"start of scan"} # {}

\* the loop body reaches a float(timestamp) on this line
ConvertsTimestamp(line, started) ==
    /\ ~line.short
    /\ \/ "start of scan" \in line.content.has
       \/ /\ started
          /\ \/ "window1: mouseVisible = True" \in line.content.has
             \/ "New trial" \in line.content.has
             \/ "autoDraw = True" \in line.content.has /\ line.content.stim # None
             \/ "Keypress:" \in line.content.has /\ line.content.key # None

LogIteration == lpc = "loop" /\ line_num' = line_num + 1

\* the parse ends at this step, with everything recorded so far in the dict
StopsKeepingRecords ==
    /\ lpc' = "returned"
    /\ trial_data'.trials = trial_data.trials
    /\ ListOf(trial_data', "stimulus_timings") = ListOf(trial_data, "stimulus_timings")
    /\ ListOf(trial_data', "keypresses") = ListOf(trial_data, "keypresses")
    /\ trial_data'.scan_start = trial_data.scan_start
    /\ trial_data'.scan_end = trial_data.scan_end

\* C1 as stated: parse_psychopy_logs never raises; an unreadable file, or a
\* matched line with a non-numeric timestamp, ends the parse, and the dict
\* returned holds every trial, stimulus timing and keypress recorded before.
C1_AsStated ==
    [][ /\ lpc' # "raised"
        /\ (lpc = "start" /\ ~log_file.readable) => StopsKeepingRecords
        /\ (LogIteration /\ MatchedLine(cur_line', scan_started)
              /\ ~Float(cur_line'.timestamp).ok) => StopsKeepingRecords ]_vars

\* C1 (amended): parse_psychopy_logs never raises; an unreadable file, or a
\* line whose timestamp the loop body converts (a 'start of scan' line, or
\* after the scan start a 'window1: mouseVisible = True' line, a 'New trial'
\* line, an 'autoDraw = True' line naming its stimulus or a 'Keypress:' line
\* naming its key) with a non-numeric timestamp, ends the parse, and the dict
\* returned holds every trial, stimulus timing and keypress recorded before.
C1_NeverRaisesKeepsRecords ==
    [][ /\ lpc' # "raised"
        /\ (lpc = "start" /\ ~log_file.readable) => StopsKeepingRecords
        /\ (LogIteration /\ ConvertsTimestamp(cur_line', scan_started)
              /\ ~Float(cur_line'.timestamp).ok) => StopsKeepingRecords ]_vars

\* a parse stopped by a bad timestamp after a trial, a stimulus timing and a
\* keypress were recorded
C1_Witness ==
    /\ lpc = "returned" /\ line_num = MaxLines
    /\ ~Float(cur_line.timestamp).ok /\ ConvertsTimestamp(cur_line, scan_started)
    /\ Len(trial_data.trials) >= 1
    /\ Len(ListOf(trial_data, "stimulus_timings")) >= 1


\* ---- claims about parse_condition_files --------------------------------
\* what the claim says is kept: the tokens whose part before the first ':' is
\* a number, in file order
ClaimedPoints(content) ==
    LET isNumber(t) == Float(BeforeColon(t)).ok
        kept == SelectSeq(content, isNumber)
    IN [i \in 1..Len(kept) |-> Float(BeforeColon(kept[i])).val]

\* C2 as stated: parse_condition_files never raises; an unreadable file gives
\* empty timing_points and duration None; of a readable file every token whose
\* part before the first ':' is a number is kept, in file order, and every
\* other token is skipped.
C2_AsStated ==
    /\ cpc # "raised"
    /\ cpc = "returned" =>
         IF cond_file.readable
         THEN condition_data.timing_points = ClaimedPoints(cond_file.content)
         ELSE condition_data.timing_points = <<>> /\ condition_data.duration = NoNum

\* C2 (amended): parse_condition_files never raises; an unreadable file gives
\* empty timing_points and duration None; a readable file whose content starts
\* with '*' gives empty timing_points; of any other readable file every token
\* whose part before the first ':' is a number is kept, in file order, and
\* every other token is skipped.
C2_NeverRaisesKeepsNumbers ==
    /\ cpc # "raised"
    /\ cpc = "returned" =>
         IF ~cond_file.readable
         THEN condition_data.timing_points = <<>> /\ condition_data.duration = NoNum
         ELSE IF StartsWithStar(cond_file.content)
         THEN condition_data.timing_points = <<>>
         ELSE condition_data.timing_points = ClaimedPoints(cond_file.content)

\* a parsed file with a kept token carrying a ':' suffix and a skipped token
C2_Witness ==
    /\ cpc = "returned" /\ cond_file.readable
    /\ Len(condition_data.timing_points) >= 1
    /\ Len(condition_data.timing_points) < Len(cond_file.content)
    /\ \E i \in 1..Len(cond_file.content) :
         /\ cond_file.content[i] # BeforeColon(cond_file.content[i])
         /\ Float(BeforeColon(cond_file.content[i])).ok


\* ---- claims about create_trial_dataframe('S01') ---------------------------
\* the dict parse_psychopy_logs returns for the log of the run
S01LogData(run) ==
    parse_psychopy_logs([name |-> Basename(s01_runs[run].log_file),
                         readable |-> LogFile(disk_logs[run]).readable,
                         lines |-> LogFile(disk_logs[run]).lines])

\* the stimulus type the records of a condition file carry
StimulusTypeOf(name) == parse_condition_filename(name)[2]

\* the rows of the returned table that come from the run and the condition file
RowsOf(run, name) ==
    {i \in DOMAIN df.rows :
        df.rows[i].run_number = run /\ df.rows[i].stimulus_type = StimulusTypeOf(name)}

\* one row per trial of the log when both files exist, none otherwise
ExpectedRows(run, name) ==
    IF LogFile(disk_logs[run]).exists /\ name \in disk_conds
    THEN Len(S01LogData(run).trials) ELSE 0

S01Returned == dpc = "done"
S01Ended == dpc \in {"done", "raised"}

\* C3 (as stated): in the S01 processing a missing file is skipped and the
\* processing continues: a run without a log file gives no rows and the later
\* runs are processed, a missing condition file removes only its own rows, so
\* the call ends by returning a table holding, for every run and every
\* condition file of the run, one row per trial of the log when both files
\* exist and no row otherwise.
C3_AsStated ==
    S01Ended =>
        /\ S01Returned
        /\ \A run \in 1..Len(s01_runs) :
             \A name \in Range(S01Patterns(s01_runs[run].condition)) :
                Cardinality(RowsOf(run, name)) = ExpectedRows(run, name)

\* C4 (as stated): create_trial_dataframe('S01') returns a DataFrame for every
\* subset of the three logs and nine condition files on disk; a run whose log
\* exists and none of whose condition files exists gives zero rows.
C4_AsStated ==
    /\ dpc # "raised"
    /\ S01Returned =>
         \A run \in 1..Len(s01_runs) :
            get_s01_condition_files(s01_runs[run].condition, disk_conds) = <<>>
              => \A i \in DOMAIN df.rows : df.rows[i].run_number # run

\* C7 (as stated): every row of the table create_trial_dataframe returns has a
\* participant id, a condition, a stimulus type, a stimulus onset and a
\* stimulus offset.
C7_AsStated ==
    S01Returned =>
        \A i \in DOMAIN df.rows :
            /\ {"participant_id", "condition", "stimulus_type",
                "stimulus_onset", "stimulus_offset"} \subseteq df.columns
            /\ df.rows[i].participant_id # None
            /\ df.rows[i].condition # NoCondition
            /\ df.rows[i].stimulus_type # None
            /\ ~IsNaN(df.rows[i].stimulus_onset)
            /\ ~IsNaN(df.rows[i].stimulus_offset)


\* ---- claims about the matching of logs and condition files ----------------
LogNamed == [n \in {f.name : f \in LogCatalog} |->
               ParsedLogs[CHOOSE f \in LogCatalog : f.name = n]]
CondNamed == [n \in {f.name : f \in CondCatalog} |->
                ParsedConds[CHOOSE f \in CondCatalog : f.name = n]]

\* the code the claim gives for each condition of a log
ClaimedCode(condition) ==
    CASE condition = "passive_viewing" -> {s_PV}
      [] condition = "active_grasp" -> {s_IG}
      [] condition = "imagined_grasp" -> {s_IG}
      [] condition = "clench" -> {s_clench}
      [] OTHER -> {}

\* the rule of the claim: same participant id, and the code of the log's
\* condition is the condition type of the condition file's name
ClaimedMatch(log_name, cond_name) ==
    /\ LogNamed[log_name].participant_id = CondNamed[cond_name].participant_id
    /\ CondNamed[cond_name].condition_type \in ClaimedCode(LogNamed[log_name].condition)

\* C6 (as stated): a (log file, condition file) pair gives trial records if
\* and only if it satisfies the rule.
C6_AsStated ==
    \A p \in contributed : (p[3] > 0) <=> ClaimedMatch(p[1], p[2])

\* C6 (amended): a pair gives one record per trial of the log (so none for a
\* log in which no trial was parsed) if it satisfies the rule, and no record
\* otherwise; a log whose condition is 'unknown' gives no record with any file.
C6_PairGivesItsTrialsIffMatched ==
    \A p \in contributed :
        /\ p[3] = IF ClaimedMatch(p[1], p[2])
                  THEN Len(LogNamed[p[1]].trials) ELSE 0
        /\ LogNamed[p[1]].condition = "unknown" => p[3] = 0

\* a directory in which one pair matched and gave records, one pair of the
\* same participant did not match, and a log without trials matched
C6_Witness ==
    /\ dpc = "done"
    /\ \E p \in contributed : p[3] > 0
    /\ \E p \in contributed :
          /\ p[3] = 0
          /\ ClaimedMatch(p[1], p[2])
    /\ \E p \in contributed :
          /\ ~ClaimedMatch(p[1], p[2])
          /\ LogNamed[p[1]].participant_id = CondNamed[p[2]].participant_id


\* ---- claims about run_analysis.main ---------------------------------------
PhaseOrder ==
    <<Begin(1), End(1), Begin(2), End(2), Begin(3), End(3), Begin(4), End(4),
      Begin(5), End(5)>>

\* C5: main runs its phases in the order 1, 2, 3, 4, 5: a phase begins only
\* when the phase before it has ended, no phase runs twice, and once a call of
\* a phase has raised, that phase is the last one begun.
C5_PhasesInOrder ==
    /\ Len(phase_log) <= Len(PhaseOrder)
    /\ phase_log = SubSeq(PhaseOrder, 1, Len(phase_log))
    /\ raised_in # 0 =>
          /\ phase_log # <<>>
          /\ phase_log[Len(phase_log)] = Begin(raised_in)

\* phases 1 and 2 have run and a call of phase 3 has raised
C5_Witness ==
    /\ mpc = "failed"
    /\ raised_in = 3
    /\ phase_log = <<Begin(1), End(1), Begin(2), End(2), Begin(3)>>


\* ---- claims about export_processed_data -----------------------------------
\* C8: the dict export_processed_data returns has the keys 'csv', 'excel' and
\* 'quality_report'; each value is the path of a file directly inside the
\* output directory (data/processed without the argument), and that file
\* exists when the call returns.
C8_ReturnedPathsExist ==
    epc = "returned" =>
        /\ DOMAIN exported_files = {"csv", "excel", "quality_report"}
        /\ \A key \in DOMAIN exported_files :
              /\ Parent(PathOf(exported_files[key])) = OutputDir(output_dir)
              /\ output_dir = NoArg =>
                    Parent(PathOf(exported_files[key])) = <<"data", "processed">>
              /\ PathOf(exported_files[key]) \in files

\* the call has returned having written the workbook in the directory given
C8_Witness ==
    /\ epc = "returned"
    /\ output_dir = <<"out">>
    /\ <<"out", "trial_data.xlsx">> \in files
    /\ exported_files["excel"] = <<"out", "/", "trial_data.xlsx">>


\* ---- claims about StatisticalAnalyzer --------------------------------------
HasToolAndShapeTrials ==
    /\ WithStimulus(analyzer_df.rows, tool_categories) # <<>>
    /\ WithStimulus(analyzer_df.rows, shape_categories) # <<>>

\* C9 (as stated): for a table with tool trials and shape trials,
\* compare_tools_vs_shapes() returns a dict with 't_test', 'effect_size' and
\* 'descriptive_stats', whose 't_test' has 'statistic', 'p_value' and
\* 'significant'.
C9_AsStated ==
    (/\ stats_call = [method |-> "compare_tools_vs_shapes", condition |-> NoCondition]
     /\ HasToolAndShapeTrials)
    => /\ {"t_test", "effect_size", "descriptive_stats"} \subseteq DOMAIN stats_result
       /\ {"statistic", "p_value", "significant"} \subseteq DOMAIN stats_result["t_test"]

\* C10: the 'research_questions' entry of the dict generate_comprehensive_report
\* returns has exactly the keys 'rq1', 'rq2' and 'rq3', and each of the three
\* has an 'analyses' entry.
C10_ThreeResearchQuestions ==
    stats_call.method = "generate_comprehensive_report" =>
        /\ "research_questions" \in DOMAIN stats_result
        /\ DOMAIN stats_result["research_questions"] = {"rq1", "rq2", "rq3"}
        /\ \A rq \in {"rq1", "rq2", "rq3"} :
              "analyses" \in DOMAIN stats_result["research_questions"][rq]

\* a report on a table of two conditions, with and without tool trials
C10_Witness ==
    /\ stats_call.method = "generate_comprehensive_report"
    /\ Len(analyzer_df.rows) = MaxRows
    /\ Cardinality(Conditions(analyzer_df.rows)) = 2
    /\ "error" \in DOMAIN stats_result["research_questions"]["rq3"]["analyses"]
                              ["overall_functional_vs_structural"]
    /\ "overall_tools_vs_shapes"
          \in DOMAIN stats_result["research_questions"]["rq1"]["analyses"]

\* C11 (as stated): the dict generate_comprehensive_report returns has the
\* top-level keys 'summary_statistics' and 'effect_sizes'.
C11_AsStated ==
    stats_call.method = "generate_comprehensive_report" =>
        {"summary_statistics", "effect_sizes"} \subseteq DOMAIN stats_result

\* ---- claims about ResultsSummarizer ----------------------------------------
\* C12 (as stated): on a table that is not empty and has the participant_id,
\* condition and stimulus_type columns, with or without the trial_number and
\* stimulus_onset columns, generate_summary_stats returns, without raising, a
\* dict with 'data_overview', 'timing_statistics' and 'condition_statistics'.
C12_AsStated ==
    (/\ summ_call = "generate_summary_stats"
     /\ summarizer_df.rows # <<>>
     /\ BaseColumns \subseteq summarizer_df.columns)
    => /\ spc = "returned"
       /\ {"data_overview", "timing_statistics", "condition_statistics"}
             \subseteq DOMAIN summ_result

\* C13 (as stated): given analysis results with research_questions and
\* summary_statistics entries, create_results_table returns a table that is
\* not empty and has the columns 'condition' and 'n_trials'.
C13_AsStated ==
    (/\ summ_call = "create_results_table"
     /\ {"research_questions", "summary_statistics"}
           \subseteq DOMAIN analysis_results.entries)
    => /\ spc = "returned"
       /\ summ_result.rows # <<>>
       /\ {"condition", "n_trials"} \subseteq summ_result.columns

\* the call of export_for_publication is over, its output directory exists
PublicationEnded ==
    /\ summ_call = "export_for_publication"
    /\ spc \in {"returned", "raised"}
    /\ PubOutputDir(pub_arg) \in pub_dirs

\* C14 (as stated): export_for_publication(output_dir) returns a dict that is
\* not empty; every path in it names a file inside output_dir that exists;
\* 'results_csv' and 'results_excel' are present exactly when the results
\* table is not empty, 'analysis_results' exactly when analysis results were
\* supplied.
C14_AsStated ==
    PublicationEnded =>
        /\ spc = "returned"
        /\ DOMAIN summ_result # {}
        /\ \A k \in DOMAIN summ_result :
              /\ PathOf(summ_result[k]) \in pub_files
              /\ Parent(PathOf(summ_result[k])) = PubOutputDir(pub_arg)
        /\ \A k \in {"results_csv", "results_excel"} :
              k \in DOMAIN summ_result
                <=> create_results_table(analysis_results).value.rows # <<>>
        /\ "analysis_results" \in DOMAIN summ_result <=> analysis_results.keys # <<>>

\* ---- claims about DataVisualizer -------------------------------------------
\* the call of export_all_plots is over, its output directory exists
PlotsEnded ==
    /\ vpc \in {"returned", "raised"}
    /\ VizOutputDir(viz_arg) \in viz_dirs

\* C15: for a table with condition and stimulus_type columns, with or without
\* a stimulus_onset column, export_all_plots(output_dir) returns a dict with
\* exactly one entry, 'behavioral', whose path is behavioral_results.png
\* inside output_dir and names an existing file.
C15_OnlyBehavioralPlot ==
    PlotsEnded =>
        /\ vpc = "returned"
        /\ DOMAIN exported_plots = {"behavioral"}
        /\ \A k \in DOMAIN exported_plots :
              /\ PathOf(exported_plots[k]) \in viz_files
              /\ PathOf(exported_plots[k])
                    = Joined(PathOf(IF viz_arg = NoArg THEN Str(cwd) ELSE viz_arg),
                             "behavioral_results.png")

\* plots exported into a directory the call created, from a table with an
\* onset column and a stimulus that is neither a tool nor a shape
C15_Witness ==
    /\ vpc = "returned"
    /\ viz_arg = Str(<<"out">>)
    /\ "stimulus_category" \in viz_df.columns
    /\ \E i \in DOMAIN viz_df.rows : viz_df.rows[i].stimulus_category = "Other"
    /\ <<"out", "behavioral_results.png">> \in viz_files

\* ---- claims about BrainImageProcessor --------------------------------------
\* the call of process_all_brain_data is over, processed/brain_images exists
BrainEnded ==
    /\ bpc \in {"returned", "raised"}
    /\ brain_images_dir \in brain_dirs

\* the mapped images whose file exists under raw/ and opens
Loadable == {c \in DOMAIN brain_image_mapping : raw_images[c] \in {"image", "truncated"}}

\* C16: process_all_brain_data returns a dict with 'total_images' and
\* 'summary'; total_images is the number of entries of brain_data, which are
\* the mapped images that exist under raw/ and load, a missing or unloadable
\* file being skipped without affecting the others; statistical_tables has
\* exactly the keys of brain_data and the keys of exported_files are among
\* them, so that with no image total_images is 0 and all three are empty.
C16_OneEntryPerLoadedImage ==
    BrainEnded =>
        /\ bpc = "returned"
        /\ {"total_images", "summary"} \subseteq DOMAIN brain_results
        /\ DOMAIN brain_results.brain_data = Loadable
        /\ brain_results.total_images = Cardinality(Loadable)
        /\ DOMAIN brain_results.statistical_tables = DOMAIN brain_results.brain_data
        /\ DOMAIN brain_results.exported_files \subseteq DOMAIN brain_results.brain_data
        /\ Loadable = {} =>
              /\ brain_results.total_images = 0
              /\ brain_results.brain_data = EmptyDict
              /\ brain_results.statistical_tables = EmptyDict
              /\ brain_results.exported_files = EmptyDict

\* a missing file, a file that does not open and an image that cannot be
\* saved, next to one that is processed
C16_Witness ==
    /\ bpc = "returned"
    /\ raw_images["clench"] = "absent"
    /\ raw_images["imagined_grasp"] = "corrupt"
    /\ raw_images["passive_viewing"] = "truncated"
    /\ raw_images["imagined_vs_passive"] = "image"
    /\ brain_results.total_images = 2
    /\ DOMAIN brain_results.exported_files = {"imagined_vs_passive"}

\* the number of coordinate lines the summary has for a condition
CoordinateLines(c) ==
    Cardinality({i \in DOMAIN brain_summary[c] : brain_summary[c][i].line = "region"})

\* C17: the image mapping is consistent: for every condition whose mni_coords
\* is a list, regions, mni_coords and stats have the same length, so that
\* generate_statistical_tables gives one row per region (region, MNI x/y/z,
\* threshold, p, q) and create_brain_image_summary one coordinate line per
\* region, neither with an index error; the table of the condition whose
\* mni_coords is a single point (clench) has one row.
C17_OneRowPerRegion ==
    /\ create_brain_image_summary(brain_data).raised = "none"
    /\ generate_statistical_tables(brain_data).raised = "none"
    /\ \A c \in DOMAIN brain_data :
          brain_data[c].mni_coords.type = "list" =>
              /\ Len(brain_data[c].mni_coords.items) = Len(brain_data[c].regions)
              /\ brain_data[c].stats.type = "list"
              /\ Len(brain_data[c].stats.items) = Len(brain_data[c].regions)
    /\ \A c \in DOMAIN brain_summary :
          brain_data[c].mni_coords.type = "list" =>
              CoordinateLines(c) = Len(brain_data[c].regions)
    /\ \A c \in DOMAIN statistical_tables :
          /\ Len(statistical_tables[c])
                = IF brain_data[c].mni_coords.type = "list"
                  THEN Len(brain_data[c].regions) ELSE 1
          /\ \A i \in DOMAIN statistical_tables[c] :
                /\ DOMAIN statistical_tables[c][i]
                      = {"region", "mni_x", "mni_y", "mni_z", "threshold",
                         "p_value", "q_value"}
                /\ statistical_tables[c][i].region = brain_data[c].regions[i]
    /\ "clench" \in DOMAIN statistical_tables => Len(statistical_tables["clench"]) = 1

\* the tables of all four images
C17_Witness ==
    /\ bpc = "returned"
    /\ DOMAIN statistical_tables = DOMAIN brain_image_mapping
    /\ Len(statistical_tables["clench"]) = 1
    /\ Len(statistical_tables["passive_viewing"]) = 2
    /\ Len(statistical_tables["imagined_grasp"]) = 3
    /\ CoordinateLines("imagined_vs_passive") = 3

\* ---- the scan start in parse_psychopy_logs ---------------------------------
\* the step records a trial, a stimulus timing or a keypress, or sets scan_end
RecordsEvent ==
    \/ trial_data'.trials # trial_data.trials
    \/ ListOf(trial_data', "stimulus_timings") # ListOf(trial_data, "stimulus_timings")
    \/ ListOf(trial_data', "keypresses") # ListOf(trial_data, "keypresses")
    \/ DOMAIN trial_data' # DOMAIN trial_data
    \/ trial_data'.scan_end # trial_data.scan_end

\* scan_start is set by a 'start of scan' line only, an event is recorded
\* from such a line or once scan_start is set
OnlyFromScanStart ==
    /\ (trial_data'.scan_start # trial_data.scan_start)
          => (LogIteration /\ "start of scan" \in cur_line'.content.has)
    /\ RecordsEvent
          => (/\ LogIteration
              /\ \/ trial_data.scan_start # NoNum
                 \/ "start of scan" \in cur_line'.content.has)

\* C18: in parse_psychopy_logs every event recorded comes from a line at or
\* after the first line whose content contains 'start of scan': scan_start is
\* set only by such a line, a trial, stimulus timing or keypress is recorded
\* only from such a line or once scan_start is set, and in every state
\* scan_end is not None only if scan_start is not None.
C18_NothingBeforeScanStart ==
    /\ [](trial_data.scan_end # NoNum => trial_data.scan_start # NoNum)
    /\ [][OnlyFromScanStart]_vars

\* a line read before the scan start that has a trial and a stimulus, of
\* which nothing was recorded, in a parse that goes on
C18_Witness ==
    /\ lpc = "loop"
    /\ line_num = 2
    /\ ~scan_started
    /\ ~cur_line.short
    /\ cur_line.content.has = {"New trial", "autoDraw = True"}
    /\ Float(cur_line.timestamp).ok
    /\ trial_data.trials = <<>>
    /\ ~Has(trial_data, "stimulus_timings")
    /\ trial_data.scan_start = NoNum

\* ---- claims about the stimulus onset of a record -----------------------------
\* C19 (as stated): in a log whose timestamps do not decrease, every record
\* that has a stimulus_onset has it from a stimulus presented during its
\* trial: the onset is not earlier than the record's trial_timestamp.
C19_AsStated ==
    comb_pc = "combined" =>
        \A i \in DOMAIN comb_records :
            Has(comb_records[i], "stimulus_onset") =>
                Val(comb_records[i].stimulus_onset) >= comb_records[i].trial_timestamp

\* ---- claims about the rows of create_trial_dataframe -------------------------
\* the S01 loop has gone through its runs: the call was for S01
CalledForS01 == run_idx > Len(s01_runs)

\* the (run, condition file) pairs the S01 processing combines
S01Pairs ==
    {p \in (1..Len(s01_runs)) \X S01CondNames :
        /\ p[2] \in Range(S01Patterns(s01_runs[p[1]].condition))
        /\ LogFile(disk_logs[p[1]]).exists
        /\ p[2] \in disk_conds}

\* the (log, condition file) pairs of the directory that match
MatchedPairs ==
    {p \in (DOMAIN part_logs) \X (DOMAIN part_conds) :
        match_log_condition(ParsedLogs[part_logs[p[1]]], ParsedConds[part_conds[p[2]]])}

\* the trials parsed from the log of the pair
PairTrials(p) ==
    IF CalledForS01 THEN S01LogData(p[1]).trials ELSE ParsedLogs[part_logs[p[1]]].trials

CombinedPairs == IF CalledForS01 THEN S01Pairs ELSE MatchedPairs

\* what identifies a row: whose trial it is, of which condition and stimulus
\* type, and which trial of the log
RowKey(r) ==
    <<r.participant_id, r.condition, r.stimulus_type,
      r.trial_number, r.trial_timestamp, r.image_file>>

\* the rows the log of the pair gives with the condition file of the pair:
\* one for each trial of the log, numbered from 1 in log order
PairKeys(p) ==
    LET trials == PairTrials(p)
        who == IF CalledForS01 THEN <<"S", "0", "1">>
               ELSE ParsedLogs[part_logs[p[1]]].participant_id
        cond == IF CalledForS01 THEN s01_runs[p[1]].condition
                ELSE ParsedLogs[part_logs[p[1]]].condition
        stim == IF CalledForS01 THEN StimulusTypeOf(p[2])
                ELSE ParsedConds[part_conds[p[2]]].stimulus_type
    IN {<<p, t, <<who, cond, stim, t, trials[t].trial_timestamp, trials[t].image_file>> >> :
           t \in DOMAIN trials}

\* one expected row per trial of each combined pair
ExpectedKeys == UNION {PairKeys(p) : p \in CombinedPairs}

\* C20: create_trial_dataframe emits one row per (trial, combined condition
\* file) pair: a log with n parsed trials combined with k condition files
\* (the matching ones, or for S01 the existing ones of the run) gives n*k
\* rows, and in each (log, condition file) group trial_number takes the
\* values 1..n exactly once, in log order.  The rows do not name their log,
\* so the groups are stated as counts: every row of the table is the row of
\* a (pair, trial) combination, and the table holds as many copies of it as
\* there are combinations that give it.
C20_OneRowPerTrialAndFile ==
    dpc = "done" =>
        LET expected == ExpectedKeys
            emitted == {<<i, RowKey(df.rows[i])>> : i \in DOMAIN df.rows}
        IN /\ Len(df.rows) = Cardinality(expected)
           /\ \A e \in emitted : \E x \in expected : e[2] = x[3]
           /\ \A x \in expected :
                 Cardinality({e \in emitted : e[2] = x[3]})
                   = Cardinality({y \in expected : y[3] = x[3]})
           /\ \A i, j \in DOMAIN df.rows :
                 (i < j /\ df.rows[i].participant_id = df.rows[j].participant_id)
                    => df.rows[i].trial_number <= df.rows[j].trial_number

\* a log of two trials combined with two condition files: four rows
C20_Witness ==
    /\ dpc = "done"
    /\ Len(df.rows) >= 4
    /\ \E p, q \in CombinedPairs :
          /\ p[1] = q[1]
          /\ p[2] # q[2]
          /\ Len(PairTrials(p)) = 2

\* ---- claims about the condition of the S01 logs --------------------------------
\* the runs whose log the S01 processing has parsed
ParsedRuns ==
    {run \in 1..Len(s01_runs) :
        /\ dpc \in {"s01", "done", "raised"}
        /\ run < run_idx \/ (dpc = "raised" /\ run = run_idx)
        /\ LogFile(disk_logs[run]).exists
        /\ LogFile(disk_logs[run]).readable}

\* C21 (as stated): for each of the three S01 runs the condition that
\* parse_psychopy_logs derives from the name of the run's log file equals
\* the condition the run is declared with.
C21_AsStated ==
    \A run \in ParsedRuns : S01LogData(run).condition = s01_runs[run].condition

\* ---- claims about the clench condition file ------------------------------------
\* the name of the clench condition file of a participant: S##_clench.txt
ClenchFileName(participant_id) == participant_id \o <<"_">> \o s_clench \o s_txt

\* the (log, condition file) pairs the loop of create_trial_dataframe has
\* tested where the log is a clench log and the file is the clench file of
\* the participant of the log
ClenchPairs ==
    {p \in (DOMAIN part_logs) \X (DOMAIN part_conds) :
        /\ dpc \in {"logs", "done"}
        /\ p[1] < log_idx
        /\ ParsedLogs[part_logs[p[1]]].condition = "clench"
        /\ part_conds[p[2]].name
              = ClenchFileName(ParsedLogs[part_logs[p[1]]].participant_id)}

\* C22 (as stated): a log whose condition is 'clench' is matched by
\* _match_log_condition with the clench condition file S##_clench.txt of
\* the same participant, whose condition_type is parsed as 'clench'.
C22_AsStated ==
    \A p \in ClenchPairs :
        /\ ParsedConds[part_conds[p[2]]].condition_type = s_clench
        /\ match_log_condition(ParsedLogs[part_logs[p[1]]], ParsedConds[part_conds[p[2]]])

\* ---- claims about _extract_participant_id --------------------------------------
\* 'S' followed by at least two digits
IsParticipantId(s) ==
    /\ Len(s) >= 3
    /\ s[1] = "S"
    /\ \A i \in 2..Len(s) : s[i] \in DigitChars

\* C23: _extract_participant_id returns either 'Unknown' or 'S' followed by
\* at least two digits, a shorter number being zero-padded to two digits,
\* and applying it to its own result returns the same result.
C23_IdShapeAndIdempotent ==
    /\ id_pc \in {"extracted", "again"}
          => (id_result = s_Unknown \/ IsParticipantId(id_result))
    /\ id_pc = "again" => id_again = id_result

\* a one-digit number padded to two digits, and the result extracted again
C23_Witness ==
    /\ id_pc = "again"
    /\ id_filename = <<"a", "S", "7", "_">>
    /\ id_result = <<"S", "0", "7">>
    /\ id_again = <<"S", "0", "7">>

\* ---- claims about the duration of a condition file -----------------------------
\* C24: parse_condition_files computes duration exactly when at least one
\* timing point was parsed: duration is None if and only if timing_points
\* is empty (as for every file whose content starts with '*'), and
\* otherwise duration = max(timing_points) - min(timing_points), which is
\* never negative.
C24_DurationIffTimingPoints ==
    cpc = "returned" =>
        /\ (condition_data.duration = NoNum) <=> (condition_data.timing_points = <<>>)
        /\ (cond_file.readable /\ StartsWithStar(cond_file.content))
              => condition_data.timing_points = <<>>
        /\ condition_data.timing_points # <<>> =>
              /\ \E hi, lo \in Range(condition_data.timing_points) :
                    /\ \A v \in Range(condition_data.timing_points) : lo <= v /\ v <= hi
                    /\ condition_data.duration = Num(hi - lo)
              /\ Val(condition_data.duration) >= 0

\* a file whose larger timing point comes first: the duration is positive
C24_Witness ==
    /\ cpc = "returned"
    /\ Len(condition_data.timing_points) = 2
    /\ condition_data.timing_points[1] > condition_data.timing_points[2]
    /\ Val(condition_data.duration) > 0

\* ---- claims about analyze_motor_activation -------------------------------------
\* the dict analyze_motor_activation returned inside the comprehensive report
MotorActivation == stats_result["additional_analyses"]["motor_activation"]

\* the report holds a comparison within the motor conditions
HasWithinMotorComparison ==
    /\ stats_call.method = "generate_comprehensive_report"
    /\ "within_motor_conditions" \in DOMAIN MotorActivation
    /\ "error" \notin DOMAIN MotorActivation["within_motor_conditions"]

\* C25 (as stated): the 'within_motor_conditions' result of
\* analyze_motor_activation compares only the motor conditions
\* (active_grasp, imagined_grasp, clench): no trial of another condition
\* enters its condition list, its trial count or its tests.
C25_AsStated ==
    HasWithinMotorComparison =>
        LET within == MotorActivation["within_motor_conditions"]
        IN /\ within["conditions"] \subseteq motor_conditions
           /\ within["n_trials"] = Len(WithCondition(analyzer_df.rows, motor_conditions))
           /\ "pairwise_comparisons" \in DOMAIN within =>
                 \A pr \in DOMAIN within["pairwise_comparisons"] :
                    pr[1] \in motor_conditions /\ pr[2] \in motor_conditions

\* ---- claims about main on an empty table ---------------------------------------
\* the calls of main after create_trial_dataframe: the quality report, the
\* export and everything of phases 2 to 5
LaterCalls ==
    {"generate_data_quality_report", "export_processed_data", "process_all_brain_data",
     "generate_comprehensive_report", "compare_tools_vs_shapes", "export_all_plots",
     "generate_summary_stats", "create_results_table", "export_for_publication",
     "write_results_report", "summary", "completed"}

\* create_trial_dataframe returns an empty table
ReturnsEmptyTable ==
    /\ mpc = "create_trial_dataframe"
    /\ raised_in' = raised_in
    /\ n_trials' = 0

\* main returns at once, and once returned makes no call
EmptyTableEndsMain ==
    /\ ReturnsEmptyTable => (mpc' = "returned" /\ phase_log' = <<Begin(1)>>)
    /\ mpc = "returned" => mpc' = "returned"

\* C26: when create_trial_dataframe('S01') yields an empty table, main
\* prints the 'No S01 data could be processed' error and returns before the
\* quality report, the data export and phases 2 to 5, so that none of the
\* calls that write a CSV, Excel, report, plot or publication file is made.
C26_EmptyTableEndsMain ==
    /\ [](mpc \in LaterCalls => n_trials > 0)
    /\ [](mpc = "returned" => (n_trials = 0 /\ phase_log = <<Begin(1)>>))
    /\ [][EmptyTableEndsMain]_vars

\* main has returned on an empty table, phase 1 begun and not ended
C26_Witness ==
    /\ mpc = "returned"
    /\ n_trials = 0
    /\ raised_in = 0
    /\ phase_log = <<Begin(1)>>

\* ---- claims about the experiment scripts ---------------------------------------
\* the parts of a script that come after the recording of pulsetime
AfterPulsetime == {"instruction", "trials", "final", "save", "ended"}

\* a call of launchScan is made from line 254, the launch routine ended and
\* nothing drawn yet
ScanOnlyAfterLaunchRoutine ==
    launch_scans' # launch_scans =>
        /\ exp_where = "launchScan"
        /\ "launch_scan" \in routines_ended
        /\ routines_ended = {"launch_scan"}
        /\ shown = {}

\* pulsetime is recorded right after the call of launchScan, nothing drawn yet
PulsetimeOnlyAfterScan ==
    pulsetime' # pulsetime => (launch_scans = 1 /\ shown = {} /\ pulsetime')

\* C27: in both experiment scripts the scanner trigger is awaited exactly
\* once and before any stimulus: launchScan is called, and 'pulsetime'
\* recorded, after the empty launch routine and before the instruction text
\* or any image routine starts.
C27_ScanBeforeAnyStimulus ==
    /\ [](launch_scans <= 1)
    /\ [](shown # {} => (launch_scans = 1 /\ pulsetime))
    /\ [](exp_where \in AfterPulsetime => (launch_scans = 1 /\ pulsetime))
    /\ []("launch_scan" \in routines_ended => "none" = ComponentOf("launch_scan"))
    /\ [][ScanOnlyAfterLaunchRoutine]_vars
    /\ [][PulsetimeOnlyAfterScan]_vars

\* a script that has run to its end: one call of launchScan, pulsetime
\* recorded, the instruction, the images and the rest text drawn
C27_Witness ==
    /\ exp_where = "ended"
    /\ launch_scans = 1
    /\ pulsetime
    /\ shown = {"Introduction", "image", "rest"}

====
